---- MODULE Spec2Model ----
(***************************************************************************)
(* A model of DBDuck's relational core: the thread-local TransactionManager *)
(* (DBDuck/core/transaction.py), the SQLAlchemy-backed adapter that uses it *)
(* (DBDuck/adapters/_sqlalchemy_adapter.py), the process-wide engine cache  *)
(* (DBDuck/core/connection_manager.py) and the delete path of the Facade    *)
(* and of the non-relational adapters (DBDuck/udom).                        *)
(*                                                                         *)
(* Strings are sequences of one-character strings, so that strip(), the     *)
(* regular expressions and the emptiness tests of the code are computed.    *)
(* The relational backend is an ideal transactional store: statements run   *)
(* on a transaction's connection stay pending until that transaction        *)
(* commits; table creation is not undone by a rollback, as                  *)
(* tests/test_transactions.py::test_transaction_rollback expects.           *)
(***************************************************************************)
EXTENDS Integers, Sequences, FiniteSets, TLC

\* ------------------------------------------------------------------ bounds
PoolCapacity == 3   \* connections the engine's pool hands out at one time
MaxRows == 3        \* rows ever inserted
MaxBodyOps == 2     \* operations the caller runs inside one scoped block

Threads == {"t1", "t2"}
Adapters == {"a1", "a2"}      \* two adapter instances for one connection string
Urls == {"u1", "u2"}
None == 0

VARIABLES
  local,      \* TransactionManager._local of each adapter, per thread
  conns,      \* the Connections checked out of the engine's pool
  committed,  \* rows of the store that are committed
  gone,       \* ids of the rows deleted from the store
  tables,     \* entities whose table exists in the store
  nrows,      \* rows inserted so far (the store's id sequence)
  prepared,   \* SQLAlchemyAdapter._prepared_cache of each adapter
  landed,     \* ids of the rows whose transaction was committed
  discarded,  \* ids of the rows whose transaction was rolled back or failed
  scope,      \* each thread's `with transaction():` block
  last,       \* the last call made and what its caller saw
  engines,    \* ConnectionManager._engines
  built,      \* engines create_engine has returned, per url
  lock,       \* owner of ConnectionManager._lock
  ge,         \* each thread's position inside get_engine
  cm          \* ConnectionManager._instance and the threads inside __new__

engVars == <<engines, built, lock, ge, cm>>
txVars == <<local, conns, committed, gone, tables, nrows, prepared, landed,
            discarded, scope, last>>
vars == <<local, conns, committed, gone, tables, nrows, prepared, landed,
          discarded, scope, last, engines, built, lock, ge, cm>>

\* ------------------------------------------------------------- characters
Lower == {"a", "b", "c", "d", "e", "f", "g", "h", "i", "j", "k", "l", "m",
          "n", "o", "p", "q", "r", "s", "t", "u", "v", "w", "x", "y", "z"}
Upper == {"A", "B", "C", "D", "E", "F", "G", "H", "I", "J", "K", "L", "M",
          "N", "O", "P", "Q", "R", "S", "T", "U", "V", "W", "X", "Y", "Z"}
Digits == {"0", "1", "2", "3", "4", "5", "6", "7", "8", "9"}
Space == {" "}

\* str.strip(): leading and trailing whitespace removed.
RECURSIVE LStrip(_)
LStrip(s) == IF s # <<>> /\ Head(s) \in Space THEN LStrip(Tail(s)) ELSE s

RECURSIVE RStrip(_)
RStrip(s) ==
  IF s # <<>> /\ s[Len(s)] \in Space THEN RStrip(SubSeq(s, 1, Len(s) - 1)) ELSE s

Strip(s) == RStrip(LStrip(s))

\* IDENTIFIER_RE.fullmatch(name): ^[A-Za-z_][A-Za-z0-9_]*$
IsIdentifier(s) ==
  /\ s # <<>>
  /\ s[1] \in Lower \cup Upper \cup {"_"}
  /\ \A i \in 1..Len(s) : s[i] \in Lower \cup Upper \cup Digits \cup {"_"}

RECURSIVE Join(_, _)
Join(parts, sep) ==
  IF parts = <<>> THEN <<>>
  ELSE IF Len(parts) = 1 THEN parts[1]
  ELSE parts[1] \o sep \o Join(Tail(parts), sep)

\* str.upper() and str.lower(), character by character.
LowerSeq == <<"a", "b", "c", "d", "e", "f", "g", "h", "i", "j", "k", "l", "m",
              "n", "o", "p", "q", "r", "s", "t", "u", "v", "w", "x", "y", "z">>
UpperSeq == <<"A", "B", "C", "D", "E", "F", "G", "H", "I", "J", "K", "L", "M",
              "N", "O", "P", "Q", "R", "S", "T", "U", "V", "W", "X", "Y", "Z">>

UpperChar(ch) ==
  IF ch \in Lower THEN UpperSeq[CHOOSE i \in 1..26 : LowerSeq[i] = ch] ELSE ch

LowerChar(ch) ==
  IF ch \in Upper THEN LowerSeq[CHOOSE i \in 1..26 : UpperSeq[i] = ch] ELSE ch

ToUpper(s) == [i \in 1..Len(s) |-> UpperChar(s[i])]
ToLower(s) == [i \in 1..Len(s) |-> LowerChar(s[i])]

\* str.startswith
StartsWith(s, prefix) ==
  Len(s) >= Len(prefix) /\ SubSeq(s, 1, Len(prefix)) = prefix

\* s[i:], with i counted from 1
From(s, i) == SubSeq(s, i, Len(s))

\* The position of the first ch in s, 0 when there is none.
IndexOf(s, ch) ==
  IF \E i \in 1..Len(s) : s[i] = ch
    THEN CHOOSE i \in 1..Len(s) : s[i] = ch /\ \A j \in 1..(i - 1) : s[j] # ch
    ELSE 0

\* \w of the regular expressions
WordChars == Lower \cup Upper \cup Digits \cup {"_"}

\* str.isdigit()
IsDigits(s) == s # <<>> /\ \A i \in 1..Len(s) : s[i] \in Digits

\* The position at which the word w starts in s as a match of \s+w\s+
\* (letter case ignored), 0 when the pattern does not match: the leftmost
\* occurrence of w with white space before and after it.
WordAt(s, w, j) ==
  /\ j >= 2
  /\ j + Len(w) <= Len(s)
  /\ s[j - 1] \in Space
  /\ ToUpper(SubSeq(s, j, j + Len(w) - 1)) = w
  /\ s[j + Len(w)] \in Space

FindWord(s, w) ==
  IF \E j \in 1..Len(s) : WordAt(s, w, j)
    THEN CHOOSE j \in 1..Len(s) :
           WordAt(s, w, j) /\ \A k \in 1..(j - 1) : ~WordAt(s, w, k)
    ELSE 0

\* re.split(r"\s+w\s+", s, flags=re.IGNORECASE) with every part stripped.
RECURSIVE SplitWord(_, _)
SplitWord(s, w) ==
  LET j == FindWord(s, w)
  IN IF j = 0 THEN <<Strip(s)>>
     ELSE <<Strip(SubSeq(s, 1, j - 1))>> \o SplitWord(LStrip(From(s, j + Len(w))), w)

KwFIND == <<"F", "I", "N", "D">>
KwCREATE == <<"C", "R", "E", "A", "T", "E">>
KwUPDATE == <<"U", "P", "D", "A", "T", "E">>
KwDELETE == <<"D", "E", "L", "E", "T", "E">>
KwWHERE == <<"W", "H", "E", "R", "E">>
KwAND == <<"A", "N", "D">>
KwOR == <<"O", "R">>
KwHAS == <<"H", "A", "S", " ">>

DigitOf(ch) ==
  CASE ch = "0" -> 0 [] ch = "1" -> 1 [] ch = "2" -> 2 [] ch = "3" -> 3
    [] ch = "4" -> 4 [] ch = "5" -> 5 [] ch = "6" -> 6 [] ch = "7" -> 7
    [] ch = "8" -> 8 [] OTHER -> 9

DigitChar(n) ==
  CASE n = 0 -> "0" [] n = 1 -> "1" [] n = 2 -> "2" [] n = 3 -> "3"
    [] n = 4 -> "4" [] n = 5 -> "5" [] n = 6 -> "6" [] n = 7 -> "7"
    [] n = 8 -> "8" [] OTHER -> "9"

\* str(n) of a natural number
RECURSIVE IntStr(_)
IntStr(n) ==
  IF n < 10 THEN <<DigitChar(n)>> ELSE IntStr(n \div 10) \o <<DigitChar(n % 10)>>

\* int(s) of a string of digits
RECURSIVE StrInt(_)
StrInt(s) ==
  IF s = <<>> THEN 0 ELSE 10 * StrInt(SubSeq(s, 1, Len(s) - 1)) + DigitOf(s[Len(s)])

\* ------------------------------------------------------- where arguments
\* The where argument of find and delete: None, a mapping (a sequence of
\* <<key, value>> pairs in insertion order) or a string.
NoWhere == [kind |-> "none", items |-> <<>>, text |-> <<>>]
MapWhere(m) == [kind |-> "map", items |-> m, text |-> <<>>]
StrWhere(s) == [kind |-> "str", items |-> <<>>, text |-> s]

\* ---------------------------------------------- rendering of native values
\* A native operation of a non-relational backend is a Python dict; it is
\* written out here as a sequence of tokens, one dict per operation.
Dict(entries) == <<"{">> \o Join(entries, <<",">>) \o <<"}">>
EmptyDict == <<"{", "}">>
Entry(key, val) == key \o <<":">> \o val
Quoted(s) == <<"'">> \o s \o <<"'">>

\* str.strip(ch) for one character
RECURSIVE StripChar(_, _)
StripChar(s, ch) ==
  IF s # <<>> /\ Head(s) = ch THEN StripChar(Tail(s), ch)
  ELSE IF s # <<>> /\ s[Len(s)] = ch THEN StripChar(SubSeq(s, 1, Len(s) - 1), ch)
  ELSE s

\* A Python value as it stands inside a native operation.
PyValue(val) ==
  CASE val.t = "bool" -> IF val.v THEN <<"True">> ELSE <<"False">>
    [] val.t = "int" -> IntStr(val.v)
    [] OTHER -> Quoted(val.v)

\* A where argument passed through unchanged into a native operation.
PyWhere(where) ==
  CASE where.kind = "none" -> <<"None">>
    [] where.kind = "str" -> Quoted(where.text)
    [] OTHER -> Dict([i \in 1..Len(where.items) |->
                        Entry(where.items[i][1], PyValue(where.items[i][2]))])

\* ------------------------------------------------------------ UQLValidator
AllowedActions == {KwFIND, KwCREATE, KwUPDATE, KwDELETE}

\* UQLValidator.is_valid_syntax
IsValidSyntax(uql) ==
  \E action \in AllowedActions : StartsWith(ToUpper(Strip(uql)), action)

\* A match of ;\s*(?:DROP|TRUNCATE|ALTER|CREATE)\b at position i.
DangerousWords ==
  {<<"D", "R", "O", "P">>, <<"T", "R", "U", "N", "C", "A", "T", "E">>,
   <<"A", "L", "T", "E", "R">>, KwCREATE}

StatementAt(uql, i) ==
  /\ uql[i] = ";"
  /\ LET rest == ToUpper(LStrip(From(uql, i + 1)))
     IN \E w \in DangerousWords :
           /\ StartsWith(rest, w)
           /\ (Len(rest) = Len(w) \/ rest[Len(w) + 1] \notin WordChars)

\* UQLValidator.check_for_injection: True when nothing dangerous is found.
CheckForInjection(uql) ==
  /\ \A i \in 1..(Len(uql) - 1) :
        SubSeq(uql, i, i + 1) \notin {<<"-", "-">>, <<"/", "*">>, <<"*", "/">>}
  /\ \A i \in 1..Len(uql) : ~StatementAt(uql, i)

\* UQLValidator.validate: "ok" or the error of the result.
Validate(uql) ==
  IF ~IsValidSyntax(uql) THEN "Invalid UQL syntax"
  ELSE IF ~CheckForInjection(uql) THEN "Potential injection risk"
  ELSE "ok"

\* ------------------------------------- the UQL of the non-relational adapters
\* The length of the longest prefix of s made of characters of the set cs.
RECURSIVE Run(_, _)
Run(s, cs) == IF s # <<>> /\ Head(s) \in cs THEN 1 + Run(Tail(s), cs) ELSE 0

\* re.match(r"(FIND|DELETE)\s+(\w+)\s*(?:WHERE\s+(.+))?", uql, re.IGNORECASE):
\* whether it matches, group 2 and group 3 (<<>> when the group is None).
\* The optional group, tried on what follows the name and the white space:
MatchWhere(rest) ==
  IF StartsWith(ToUpper(rest), KwWHERE) /\ Run(From(rest, 6), Space) >= 1
    THEN IF LStrip(From(rest, 6)) # <<>> THEN LStrip(From(rest, 6))
         ELSE IF Len(rest) >= 7 THEN <<" ">> ELSE <<>>
    ELSE <<>>

\* \w+ on what follows the keyword and its white space:
MatchName(rest, w) ==
  [ok |-> w >= 1, name |-> SubSeq(rest, 1, w),
   condition |-> MatchWhere(LStrip(From(rest, w + 1)))]

\* \s+ on what follows the keyword:
MatchSpace(rest, sp) ==
  IF sp >= 1 THEN MatchName(From(rest, sp + 1), Run(From(rest, sp + 1), WordChars))
  ELSE [ok |-> FALSE, name |-> <<>>, condition |-> <<>>]

MatchKeyword(uql, k) ==
  IF k > 0 THEN MatchSpace(From(uql, k + 1), Run(From(uql, k + 1), Space))
  ELSE [ok |-> FALSE, name |-> <<>>, condition |-> <<>>]

ExtractMatch(uql) ==
  MatchKeyword(uql, IF StartsWith(ToUpper(uql), KwFIND) THEN 4
                    ELSE IF StartsWith(ToUpper(uql), KwDELETE) THEN 6 ELSE 0)

\* ---------------------------------------------------------- NoSQLAdapter
\* val.replace(".", "", 1)
DropFirstDot(val) ==
  IF IndexOf(val, ".") = 0 THEN val
  ELSE SubSeq(val, 1, IndexOf(val, ".") - 1) \o From(val, IndexOf(val, ".") + 1)

\* NoSQLAdapter._cast_value
CastValue(val) ==
  IF ToLower(val) = <<"t", "r", "u", "e">> THEN <<"True">>
  ELSE IF ToLower(val) = <<"f", "a", "l", "s", "e">> THEN <<"False">>
  ELSE IF IsDigits(val) THEN IntStr(StrInt(val))
  ELSE IF IsDigits(DropFirstDot(val)) THEN <<"float(">> \o val \o <<")">>
  ELSE Quoted(StripChar(StripChar(val, "\""), "'"))

\* expr.split(ch, 1): the key and the value on the two sides of the first
\* ch, both stripped.
CutKey(expr, ch) == Strip(SubSeq(expr, 1, IndexOf(expr, ch) - 1))
CutVal(expr, ch) == Strip(From(expr, IndexOf(expr, ch) + 1))

\* NoSQLAdapter._convert_simple_expression
ConvertSimpleExpression(expr) ==
  IF IndexOf(expr, ">") > 0
    THEN Dict(<<Entry(CutKey(expr, ">"),
                      Dict(<<Entry(<<"$gt">>, CastValue(CutVal(expr, ">")))>>))>>)
  ELSE IF IndexOf(expr, "<") > 0
    THEN Dict(<<Entry(CutKey(expr, "<"),
                      Dict(<<Entry(<<"$lt">>, CastValue(CutVal(expr, "<")))>>))>>)
  ELSE IF IndexOf(expr, "=") > 0
    THEN Dict(<<Entry(CutKey(expr, "="), CastValue(CutVal(expr, "=")))>>)
  ELSE IF StartsWith(ToUpper(expr), KwHAS)
    THEN Dict(<<Entry(Strip(From(expr, 5)), Dict(<<Entry(<<"$exists">>, <<"True">>)>>))>>)
  ELSE Dict(<<Entry(<<"$raw">>, Quoted(expr))>>)

\* NoSQLAdapter._convert_condition; the condition None is the empty string.
RECURSIVE ConvertCondition(_)
ConvertCondition(condition) ==
  IF condition = <<>> THEN EmptyDict
  ELSE IF FindWord(condition, KwOR) > 0
    THEN LET parts == SplitWord(condition, KwOR)
         IN Dict(<<Entry(<<"$or">>,
                         <<"[">> \o Join([i \in 1..Len(parts) |->
                                            ConvertCondition(parts[i])], <<",">>)
                                 \o <<"]">>)>>)
  ELSE IF FindWord(condition, KwAND) > 0
    THEN LET parts == SplitWord(condition, KwAND)
         IN Dict(<<Entry(<<"$and">>,
                         <<"[">> \o Join([i \in 1..Len(parts) |->
                                            ConvertCondition(parts[i])], <<",">>)
                                 \o <<"]">>)>>)
  ELSE ConvertSimpleExpression(Strip(condition))

\* The dict NoSQLAdapter hands to run_native for a delete.
MongoDelete(collection, filter) ==
  Dict(<<Entry(<<"delete">>, Quoted(ToLower(collection))), Entry(<<"where">>, filter)>>)

\* NoSQLAdapter.convert_uql for a DELETE statement.  A statement the regular
\* expression does not match has no collection, and collection.lower() fails.
NoSqlConvertDelete(uql) ==
  LET m == ExtractMatch(Strip(uql))
  IN IF ~m.ok THEN [r |-> "AttributeError", q |-> <<>>]
     ELSE [r |-> "ok", q |-> MongoDelete(m.name, ConvertCondition(m.condition))]

\* NoSQLAdapter.run_native on a delete operation of a mongodb instance:
\* delete_many(where) reaches the server.
NoSqlRunNative(q) == [r |-> "ok", native |-> <<q>>]

\* NoSQLAdapter.delete
NoSqlDelete(entity, where) ==
  LET filter == IF where.kind = "map" THEN PyWhere(where)
                ELSE ConvertCondition(where.text)
  IN IF where.kind = "none" THEN [r |-> "QueryError", native |-> <<>>]
     ELSE IF filter = EmptyDict THEN [r |-> "QueryError", native |-> <<>>]
     ELSE NoSqlRunNative(MongoDelete(entity, filter))

\* ----------------------------------------------------------- GraphAdapter
\* UDOM._to_uql_value / GraphAdapter._to_uql_value, for the booleans,
\* integers, floats and strings the payloads hold; the value of a float is
\* the text str() gives for it.
ToUqlValue(val) ==
  CASE val.t = "bool" -> IF val.v THEN <<"t", "r", "u", "e">>
                         ELSE <<"f", "a", "l", "s", "e">>
    [] val.t = "int" -> IF val.v < 0 THEN <<"-">> \o IntStr(0 - val.v) ELSE IntStr(val.v)
    [] val.t = "float" -> val.v
    [] OTHER -> <<"'">>
                \o Join([i \in 1..Len(val.v) |->
                           IF val.v[i] = "'" THEN <<"\\", "'">> ELSE <<val.v[i]>>],
                        <<>>)
                \o <<"'">>

UqlPairs(items) ==
  Join([i \in 1..Len(items) |->
          items[i][1] \o <<" ", "=", " ">> \o ToUqlValue(items[i][2])],
       <<" ", "A", "N", "D", " ">>)

\* GraphAdapter._normalize_where
NormalizeWhere(where) ==
  CASE where.kind = "none" -> <<>>
    [] where.kind = "str" -> Strip(where.text)
    [] OTHER -> UqlPairs(where.items)

\* The value of an equality clause as GraphAdapter._convert_conditions
\* writes it.
CypherValue(val) ==
  IF ToLower(val) \in {<<"t", "r", "u", "e">>, <<"f", "a", "l", "s", "e">>}
    THEN ToLower(val)
  ELSE IF IsDigits(val) THEN val
  ELSE <<"\"">> \o StripChar(StripChar(val, "'"), "\"") \o <<"\"">>

\* One clause of GraphAdapter._convert_conditions; <<>> when the clause
\* yields no Cypher condition.
CypherCondition(part) ==
  IF IndexOf(part, ">") > 0
    THEN <<"n", ".">> \o CutKey(part, ">") \o <<" ", ">", " ">> \o CutVal(part, ">")
  ELSE IF IndexOf(part, "<") > 0
    THEN <<"n", ".">> \o CutKey(part, "<") \o <<" ", "<", " ">> \o CutVal(part, "<")
  ELSE IF IndexOf(part, "=") > 0
    THEN <<"n", ".">> \o CutKey(part, "=") \o <<" ", "=", " ">>
           \o CypherValue(CutVal(part, "="))
  ELSE IF StartsWith(ToUpper(part), KwHAS)
    THEN <<"(", "n", ")", "-", "[", ":">> \o ToUpper(Strip(From(part, 5)))
           \o <<"]", "-", ">", "(", ")">>
  ELSE <<>>

\* _convert_conditions without the branch of HAS
ConvertConditions_without_has(condition) ==
  IF condition = <<>> THEN <<>>
  ELSE LET parts == SplitWord(condition, KwAND)
           conds == SelectSeq([i \in 1..Len(parts) |-> CypherCondition(parts[i])],
                              LAMBDA c : c # <<>> /\ c[1] # "(")
       IN IF conds = <<>> THEN <<>>
          ELSE KwWHERE \o <<" ">> \o Join(conds, <<" ">> \o KwAND \o <<" ">>)


\* GraphAdapter._convert_conditions
ConvertConditions(condition) ==
  IF condition = <<>> THEN <<>>
  ELSE LET parts == SplitWord(condition, KwAND)
           conds == SelectSeq([i \in 1..Len(parts) |-> CypherCondition(parts[i])],
                              LAMBDA c : c # <<>>)
       IN IF conds = <<>> THEN <<>>
          ELSE KwWHERE \o <<" ">> \o Join(conds, <<" ">> \o KwAND \o <<" ">>)

\* GraphAdapter.convert_uql for a DELETE statement
GraphConvertDelete(uql) ==
  LET m == ExtractMatch(Strip(uql))
  IN IF ~m.ok THEN [r |-> "QueryError", q |-> <<>>]
     ELSE [r |-> "ok",
           q |-> <<"M", "A", "T", "C", "H", " ", "(", "n", ":">> \o m.name
                   \o <<")", " ">> \o ConvertConditions(m.condition)
                   \o <<" ">> \o KwDELETE \o <<" ", "n", ";">>]

\* The UQL text of a delete: f"DELETE {entity} WHERE {where_clause}"
DeleteUql(entity, clause) ==
  KwDELETE \o <<" ">> \o entity \o <<" ">> \o KwWHERE \o <<" ">> \o clause

\* GraphAdapter.delete; run_native hands the query to the caller's driver.
GraphDelete(entity, where) ==
  LET clause == NormalizeWhere(where)
      C == GraphConvertDelete(DeleteUql(entity, clause))
  IN IF clause = <<>> THEN [r |-> "QueryError", native |-> <<>>]
     ELSE IF C.r # "ok" THEN [r |-> C.r, native |-> <<>>]
     ELSE [r |-> "ok", native |-> <<C.q>>]

\* ---------------------------------------------------- the pooled connections
NoConn == [state |-> "free", tx |-> "none", owner |-> <<"", "">>,
           ins |-> {}, del |-> {}]
NoHandle == [connection |-> None, transaction |-> None]

Free(cs) == {c \in 1..PoolCapacity : cs[c].state = "free"}

\* The state the transaction manager and the store share, as one value;
\* closed lists the connections the current call has closed, in order.
Store == [local |-> local, conns |-> conns, committed |-> committed, gone |-> gone,
          tables |-> tables, nrows |-> nrows, prepared |-> prepared,
          closed |-> <<>>]

SetStore(S) ==
  /\ local' = S.local
  /\ conns' = S.conns
  /\ committed' = S.committed
  /\ gone' = S.gone
  /\ tables' = S.tables
  /\ nrows' = S.nrows
  /\ prepared' = S.prepared

\* tx.commit(): the pending statements become visible, or the commit raises
\* and they are lost.
TxCommit(S, c, ok) ==
  IF ok /\ S.conns[c].tx = "active"
    THEN [S EXCEPT !.conns[c].tx = "none",
                   !.conns[c].ins = {},
                   !.conns[c].del = {},
                   !.committed = (S.committed \ S.conns[c].del) \cup S.conns[c].ins,
                   !.gone = S.gone \cup {r.id : r \in S.conns[c].del}]
    ELSE [S EXCEPT !.conns[c].tx = "none", !.conns[c].ins = {}, !.conns[c].del = {}]

\* A rollback that lets the pending statements through: the fault the
\* visibility property of transactions must tell from the code.
TxRollback_keeps(S, c, ok) ==
  [S EXCEPT !.conns[c].tx = "none", !.conns[c].ins = {}, !.conns[c].del = {},
            !.committed = (S.committed \ S.conns[c].del) \cup S.conns[c].ins]

\* tx.rollback(): the pending statements are discarded, also when it raises.
TxRollback(S, c, ok) ==
  [S EXCEPT !.conns[c].tx = "none", !.conns[c].ins = {}, !.conns[c].del = {}]

\* conn.close(): the connection goes back to the pool, which rolls back what
\* is still open on it.  Closing a closed Connection does nothing to the pool.
ConnClose(S, c) ==
  [S EXCEPT !.conns[c] = NoConn, !.closed = Append(@, c)]

ClearLocal(S, a, t) == [S EXCEPT !.local[a][t] = NoHandle]

\* ------------------------------------------------------ TransactionManager
\* Each operator returns the store after the call (s), what the caller saw
\* (r: "ok" or the error raised) and the connection it acted on (c).

\* Faulty variants of begin: the connection checked out before the guard is
\* tested; the guard left out; the handle kept in a plain attribute that all
\* threads share instead of in threading.local.
begin_connect_first(S, a, t, drv) ==
  IF drv = "connect_fail" \/ Free(S.conns) = {}
    THEN [s |-> S, r |-> "DriverError", c |-> None]
  ELSE LET c == CHOOSE x \in Free(S.conns) : \A y \in Free(S.conns) : x <= y
           open == [NoConn EXCEPT !.state = "open", !.owner = <<a, t>>]
       IN IF S.local[a][t].connection # None
            THEN [s |-> [S EXCEPT !.conns[c] = open],
                  r |-> "TransactionError_active", c |-> None]
          ELSE IF drv = "begin_fail"
            THEN [s |-> [S EXCEPT !.conns[c] = open], r |-> "DriverError", c |-> c]
            ELSE [s |-> [S EXCEPT !.conns[c] = [open EXCEPT !.tx = "active"],
                                  !.local[a][t] = [connection |-> c, transaction |-> c]],
                  r |-> "ok", c |-> c]

begin_unguarded(S, a, t, drv) ==
  IF drv = "connect_fail" \/ Free(S.conns) = {}
    THEN [s |-> S, r |-> "DriverError", c |-> None]
  ELSE LET c == CHOOSE x \in Free(S.conns) : \A y \in Free(S.conns) : x <= y
           open == [NoConn EXCEPT !.state = "open", !.owner = <<a, t>>]
       IN IF drv = "begin_fail"
            THEN [s |-> [S EXCEPT !.conns[c] = open], r |-> "DriverError", c |-> c]
            ELSE [s |-> [S EXCEPT !.conns[c] = [open EXCEPT !.tx = "active"],
                                  !.local[a][t] = [connection |-> c, transaction |-> c]],
                  r |-> "ok", c |-> c]

begin_shared(S, a, t, drv) ==
  IF S.local[a][t].connection # None
    THEN [s |-> S, r |-> "TransactionError_active", c |-> None]
  ELSE IF drv = "connect_fail" \/ Free(S.conns) = {}
    THEN [s |-> S, r |-> "DriverError", c |-> None]
  ELSE LET c == CHOOSE x \in Free(S.conns) : \A y \in Free(S.conns) : x <= y
           open == [NoConn EXCEPT !.state = "open", !.owner = <<a, t>>]
       IN IF drv = "begin_fail"
            THEN [s |-> [S EXCEPT !.conns[c] = open], r |-> "DriverError", c |-> c]
            ELSE [s |-> [S EXCEPT !.conns[c] = [open EXCEPT !.tx = "active"],
                                  !.local[a] = [u \in Threads |->
                                                  [connection |-> c, transaction |-> c]]],
                  r |-> "ok", c |-> c]

\* TransactionManager.begin; drv is what the driver does: "ok", "connect_fail"
\* (engine.connect() raises) or "begin_fail" (conn.begin() raises).  With
\* every connection of the pool checked out, engine.connect() times out.
begin(S, a, t, drv) ==
  IF S.local[a][t].connection # None
    THEN [s |-> S, r |-> "TransactionError_active", c |-> None]
  ELSE IF drv = "connect_fail" \/ Free(S.conns) = {}
    THEN [s |-> S, r |-> "DriverError", c |-> None]
  ELSE LET c == CHOOSE x \in Free(S.conns) : \A y \in Free(S.conns) : x <= y
           open == [NoConn EXCEPT !.state = "open", !.owner = <<a, t>>]
       IN IF drv = "begin_fail"
            THEN [s |-> [S EXCEPT !.conns[c] = open], r |-> "DriverError", c |-> c]
            ELSE [s |-> [S EXCEPT !.conns[c] = [open EXCEPT !.tx = "active"],
                                  !.local[a][t] = [connection |-> c, transaction |-> c]],
                  r |-> "ok", c |-> c]

\* A commit without the finally block: the connection is closed and the
\* handle cleared only when tx.commit() returned.
commit_no_finally(S, a, t, ok) ==
  LET tx == S.local[a][t].transaction
      conn == S.local[a][t].connection
  IN IF tx = None \/ conn = None
       THEN [s |-> S, r |-> "TransactionError_none", c |-> None]
     ELSE IF ok
       THEN [s |-> ClearLocal(ConnClose(TxCommit(S, tx, ok), conn), a, t),
             r |-> "ok", c |-> conn]
       ELSE [s |-> TxCommit(S, tx, ok), r |-> "TransactionError_commit", c |-> conn]

\* TransactionManager.commit; ok is whether tx.commit() returns.
commit(S, a, t, ok) ==
  LET tx == S.local[a][t].transaction
      conn == S.local[a][t].connection
  IN IF tx = None \/ conn = None
       THEN [s |-> S, r |-> "TransactionError_none", c |-> None]
       ELSE [s |-> ClearLocal(ConnClose(TxCommit(S, tx, ok), conn), a, t),
             r |-> IF ok THEN "ok" ELSE "TransactionError_commit",
             c |-> conn]

\* A rollback that returns quietly when there is nothing to roll back.
rollback_quiet(S, a, t, ok) ==
  LET tx == S.local[a][t].transaction
      conn == S.local[a][t].connection
  IN IF tx = None \/ conn = None
       THEN [s |-> S, r |-> "ok", c |-> None]
       ELSE [s |-> ClearLocal(ConnClose(TxRollback(S, tx, ok), conn), a, t),
             r |-> IF ok THEN "ok" ELSE "TransactionError_rollback",
             c |-> conn]

\* TransactionManager.rollback; ok is whether tx.rollback() returns.
rollback(S, a, t, ok) ==
  LET tx == S.local[a][t].transaction
      conn == S.local[a][t].connection
  IN IF tx = None \/ conn = None
       THEN [s |-> S, r |-> "TransactionError_none", c |-> None]
       ELSE [s |-> ClearLocal(ConnClose(TxRollback(S, tx, ok), conn), a, t),
             r |-> IF ok THEN "ok" ELSE "TransactionError_rollback",
             c |-> conn]

\* TransactionManager.get_connection
get_connection(S, a, t) == S.local[a][t].connection

\* A helper whose rollback sits in a finally block instead of an except
\* block, and so runs after a commit that returned as well.
transaction_exit_finally(S, a, t, outcome, okCommit, okRollback) ==
  IF outcome = "ok"
    THEN LET C == commit(S, a, t, okCommit)
             R == rollback(C.s, a, t, okRollback)
         IN [s |-> R.s, ev |-> <<"commit", "rollback">>,
             seen |-> IF C.r = "ok" THEN "none" ELSE R.r]
    ELSE LET R == rollback(S, a, t, okRollback)
         IN [s |-> R.s, ev |-> <<"rollback">>,
             seen |-> IF R.r = "ok" THEN "original" ELSE R.r]

\* The end of TransactionManager.transaction: the body returned (outcome "ok")
\* or raised an Exception (outcome "exc").  ev are the calls the helper made,
\* seen the failure that leaves the with statement ("none": no failure).
transaction_exit(S, a, t, outcome, okCommit, okRollback) ==
  IF outcome = "ok"
    THEN LET C == commit(S, a, t, okCommit)
         IN IF C.r = "ok"
              THEN [s |-> C.s, ev |-> <<"commit">>, seen |-> "none"]
              ELSE LET R == rollback(C.s, a, t, okRollback)
                   IN [s |-> R.s, ev |-> <<"commit", "rollback">>,
                       seen |-> IF R.r = "ok" THEN C.r ELSE R.r]
    ELSE LET R == rollback(S, a, t, okRollback)
         IN [s |-> R.s, ev |-> <<"rollback">>,
             seen |-> IF R.r = "ok" THEN "original" ELSE R.r]

\* ------------------------------------------------------------------ calls
\* What a call was and what its caller saw: the error raised ("ok": none),
\* the connections it closed and the native statements it issued; for the
\* end of a scoped block also how the body ended and the block's events.
\* The arguments of the call are kept with it (entity, data, where, order_by,
\* limit, uql; an absent order_by or limit is <<>>), and so are the query
\* convert_uql compiled (q), the names the generator wrote into the text
\* (names), the filter of a compiled delete (filter), the value the call
\* returned (ret), for a relational find the kind of driver it ran on, and
\* the rows a find returned or a delete affected (rows), and the connection
\* each native statement ran on (on; None: a connection of its own).
Call(t, a, op, r, S, native) ==
  [thread |-> t, adapter |-> a, op |-> op, result |-> r, closed |-> S.closed,
   native |-> native, outcome |-> "", events |-> <<>>,
   family |-> "sql", via |-> "adapter", where |-> NoWhere,
   entity |-> <<>>, data |-> <<>>, order_by |-> <<>>, limit |-> <<>>,
   uql |-> <<>>, q |-> <<>>, names |-> <<>>, filter |-> <<>>, ret |-> <<>>,
   driver |-> "", dialect |-> "", instance |-> "", url |-> "",
   config |-> <<>>, rows |-> {}, on |-> <<>>]

NoScope == [pc |-> "none", adapter |-> "", events |-> <<>>]

\* A thread inside a scoped block runs at most MaxBodyOps operations in it.
CanOp(t) == scope[t].pc = "body" => Len(scope[t].events) <= MaxBodyOps

\* An operation inside a block is one of the block's events.
AfterOp(t) ==
  IF scope[t].pc = "body" THEN [scope EXCEPT ![t].events = Append(@, "op")]
  ELSE scope

DrvBegin == {"ok", "connect_fail", "begin_fail"}

\* The ids of the rows pending on the transaction of context (a, t).
Pending(a, t) ==
  IF local[a][t].connection = None THEN {}
  ELSE {r.id : r \in conns[local[a][t].connection].ins}

\* The rows of a transaction are recorded as landed when commit() returned
\* and as discarded when the transaction ended in any other way.
Ended(a, t, how) ==
  /\ landed' = IF how = "committed" THEN landed \cup Pending(a, t) ELSE landed
  /\ discarded' = IF how = "lost" THEN discarded \cup Pending(a, t) ELSE discarded

\* ------------------------------------------------------ the relational store
\* A value is tagged with its Python type; a mapping (a payload, a where
\* mapping) is a sequence of <<key, value>> pairs in insertion order.
IntVal(n) == [t |-> "int", v |-> n]
NoneVal == [t |-> "none", v |-> 0]
Vals == {IntVal(1), IntVal(2)}

TName == <<"T">>
KName == <<"k">>

Keys(m) == [i \in 1..Len(m) |-> m[i][1]]

\* The rows a statement run on connection c sees: the committed rows, and on
\* a transaction's connection that transaction's own pending changes.
SqlVisible(S, c) ==
  IF c = None THEN S.committed
  ELSE (S.committed \ S.conns[c].del) \cup S.conns[c].ins

RowHas(row, key, val) == \E i \in 1..Len(row.data) : row.data[i] = <<key, val>>

Unspaced(s) == SelectSeq(s, LAMBDA ch : ch \notin Space)

\* The store's parser on a raw condition: `<column> = <digit>` is a filter,
\* anything else (the empty condition included) a syntax error.
SqlCondOk(text) ==
  LET u == Unspaced(text)
  IN Len(u) = 3 /\ u[1] \in Lower /\ u[2] = "=" /\ u[3] \in Digits

SqlCondMatches(text, row) ==
  LET u == Unspaced(text) IN RowHas(row, <<u[1]>>, IntVal(DigitOf(u[3])))

\* Whether the store accepts the WHERE clause built from `where`.
SqlWhereOk(where) == where.kind = "str" => SqlCondOk(where.text)

SqlWhereMatches(where, row) ==
  CASE where.kind = "none" -> TRUE
    [] where.kind = "map" ->
         \A i \in 1..Len(where.items) :
            /\ where.items[i][2] # NoneVal      \* `col = NULL` is never true
            /\ RowHas(row, where.items[i][1], where.items[i][2])
    [] OTHER -> SqlCondMatches(where.text, row)

SqlMatching(S, c, entity, where) ==
  {row \in SqlVisible(S, c) : row.e = entity /\ SqlWhereMatches(where, row)}

\* INSERT on connection c (None: a connection of its own, committed at once).
SqlInsert(S, c, entity, data) ==
  LET row == [id |-> S.nrows + 1, e |-> entity, data |-> data, intx |-> c # None]
  IN IF c = None
       THEN [S EXCEPT !.nrows = @ + 1, !.committed = @ \cup {row}]
       ELSE [S EXCEPT !.nrows = @ + 1, !.conns[c].ins = @ \cup {row}]

\* DELETE on connection c of the rows given.
SqlDelete(S, c, rows) ==
  IF c = None
    THEN [S EXCEPT !.committed = @ \ rows,
                   !.gone = @ \cup {r.id : r \in rows}]
    ELSE [S EXCEPT !.conns[c].del = @ \cup rows,
                   !.conns[c].ins = @ \ rows]

\* ------------------------------------------------------- SQLAlchemyAdapter
\* SQLiteAdapter._quote
Quote(name) == <<"\"">> \o name \o <<"\"">>

\* SQLiteAdapter._type_for_value
TypeForValue(val) ==
  CASE val.t \in {"bool", "int"} -> "INTEGER"
    [] val.t = "float" -> "REAL"
    [] OTHER -> "TEXT"

\* An adapter that runs a statement on whatever transactional connection it
\* holds, also when it is that of another thread.
ActiveConnection_shared(S, a, t) ==
  IF get_connection(S, a, t) # None THEN get_connection(S, a, t)
  ELSE IF \E u \in Threads : get_connection(S, a, u) # None
    THEN get_connection(S, a, CHOOSE u \in Threads : get_connection(S, a, u) # None)
    ELSE None

\* SQLAlchemyAdapter._active_connection
ActiveConnection(S, a, t) == get_connection(S, a, t)

\* The statement _ensure_table issues.
EnsureTableSql(entity, data) ==
  <<"CREATE TABLE IF NOT EXISTS ">> \o Quote(entity) \o <<" (">>
    \o Join(<< <<"\"id\" INTEGER PRIMARY KEY AUTOINCREMENT">> >>
              \o [i \in 1..Len(data) |->
                    Quote(data[i][1]) \o <<" ", TypeForValue(data[i][2])>>],
            <<", ">>)
    \o <<")">>

\* SQLAlchemyAdapter._validate_data
ValidData(data) ==
  data # <<>> /\ \A i \in 1..Len(data) : IsIdentifier(data[i][1])

InsertKey(entity, cols) == <<"insert:">> \o entity \o <<":">> \o Join(cols, <<",">>)

InsertSql(entity, cols) ==
  <<"INSERT INTO ">> \o Quote(entity) \o <<" (">>
    \o Join([i \in 1..Len(cols) |-> Quote(cols[i])], <<", ">>)
    \o <<") VALUES (">>
    \o Join([i \in 1..Len(cols) |-> <<":">> \o cols[i]], <<", ">>)
    \o <<")">>

\* on: the connection each native statement ran on (None: one of its own).
Failed(S, r) == [s |-> S, r |-> r, rows |-> {}, native |-> <<>>, on |-> <<>>]

\* create with the table ensured before the payload is validated
create_ensure_first(S, a, t, entity, data) ==
  IF ~IsIdentifier(entity) THEN Failed(S, "QueryError")
  ELSE IF ~ValidData(data)
    THEN [s |-> [S EXCEPT !.tables = @ \cup {entity}], r |-> "QueryError", rows |-> {},
          native |-> <<EnsureTableSql(entity, data)>>,
          on |-> <<ActiveConnection(S, a, t)>>]
  ELSE LET c == ActiveConnection(S, a, t)
           S1 == [S EXCEPT !.tables = @ \cup {entity}]
           hit == {p \in S.prepared[a] : p.key = InsertKey(entity, Keys(data))}
           sql == IF hit # {} THEN (CHOOSE p \in hit : TRUE).sql
                  ELSE InsertSql(entity, Keys(data))
           S2 == IF hit # {} THEN S1
                 ELSE [S1 EXCEPT !.prepared[a] =
                                   @ \cup {[key |-> InsertKey(entity, Keys(data)), sql |-> sql]}]
       IN [s |-> SqlInsert(S2, c, entity, data), r |-> "ok", rows |-> {},
           native |-> <<EnsureTableSql(entity, data), sql>>, on |-> <<c, c>>]

\* SQLAlchemyAdapter.create
create(S, a, t, entity, data) ==
  IF ~IsIdentifier(entity) \/ ~ValidData(data) THEN Failed(S, "QueryError")
  ELSE LET c == ActiveConnection(S, a, t)
           ddl == EnsureTableSql(entity, data)
           S1 == [S EXCEPT !.tables = @ \cup {entity}]
           cols == Keys(data)
           key == InsertKey(entity, cols)
           hit == {p \in S.prepared[a] : p.key = key}
           sql == IF hit # {} THEN (CHOOSE p \in hit : TRUE).sql
                  ELSE InsertSql(entity, cols)
           S2 == IF hit # {} THEN S1
                 ELSE [S1 EXCEPT !.prepared[a] = @ \cup {[key |-> key, sql |-> sql]}]
       IN [s |-> SqlInsert(S2, c, entity, data), r |-> "ok", rows |-> {},
           native |-> <<ddl, sql>>, on |-> <<c, c>>]

\* SQLAlchemyAdapter._build_where_clause: the clause ("" when there is none)
\* and whether a key of the mapping is rejected.
WhereSql(where) ==
  CASE where.kind = "none" -> <<>>
    [] where.kind = "str" -> <<" WHERE ">> \o where.text
    [] OTHER ->
         IF where.items = <<>> THEN <<>>
         ELSE <<" WHERE ">>
                \o Join([i \in 1..Len(where.items) |->
                           Quote(where.items[i][1]) \o <<" = :w_", DigitChar(i - 1)>>],
                        <<" AND ">>)

WhereKeysOk(where) ==
  where.kind = "map" => \A i \in 1..Len(where.items) : IsIdentifier(where.items[i][1])

\* SQLAlchemyAdapter.find without order_by and limit
find(S, a, t, entity, where) ==
  IF ~IsIdentifier(entity) \/ ~WhereKeysOk(where) THEN Failed(S, "QueryError")
  ELSE LET c == ActiveConnection(S, a, t)
           sql == <<"SELECT * FROM ">> \o Quote(entity) \o WhereSql(where)
       IN IF entity \in S.tables /\ SqlWhereOk(where)
            THEN [s |-> S, r |-> "ok", rows |-> SqlMatching(S, c, entity, where),
                  native |-> <<sql>>, on |-> <<c>>]
            ELSE [s |-> S, r |-> "QueryError", rows |-> {}, native |-> <<sql>>,
                  on |-> <<c>>]

\* SQLAlchemyAdapter.delete
delete(S, a, t, entity, where) ==
  IF ~IsIdentifier(entity) \/ ~WhereKeysOk(where) THEN Failed(S, "QueryError")
  ELSE IF WhereSql(where) = <<>> THEN Failed(S, "QueryError")
  ELSE LET c == ActiveConnection(S, a, t)
           sql == <<"DELETE FROM ">> \o Quote(entity) \o WhereSql(where)
           rows == SqlMatching(S, c, entity, where)
       IN IF entity \in S.tables /\ SqlWhereOk(where)
            THEN [s |-> SqlDelete(S, c, rows), r |-> "ok", rows |-> rows,
                  native |-> <<sql>>, on |-> <<c>>]
            ELSE [s |-> S, r |-> "QueryError", rows |-> {}, native |-> <<sql>>,
                  on |-> <<c>>]

\* The where arguments given to delete: absent, empty, blank and filtering.
DeleteWheres ==
  {NoWhere, MapWhere(<<>>), StrWhere(<<>>), StrWhere(<<" ">>),
   StrWhere(<<"k", "=", "1">>)}
    \cup {MapWhere(<< <<KName, v>> >>) : v \in Vals}

\* SQLAlchemyAdapter.begin / UDOM.begin
Begin(t, a, drv) ==
  /\ CanOp(t)
  /\ LET B == begin(Store, a, t, drv)
     IN /\ SetStore(B.s)
        /\ last' = Call(t, a, "begin", B.r, B.s, <<>>)
  /\ scope' = AfterOp(t)
  /\ UNCHANGED <<landed, discarded>>
  /\ UNCHANGED engVars

\* SQLAlchemyAdapter.commit / UDOM.commit
Commit(t, a, ok) ==
  /\ CanOp(t)
  /\ LET C == commit(Store, a, t, ok)
     IN /\ SetStore(C.s)
        /\ last' = Call(t, a, "commit", C.r, C.s, <<>>)
        /\ Ended(a, t, IF C.r = "ok" THEN "committed" ELSE "lost")
  /\ scope' = AfterOp(t)
  /\ UNCHANGED engVars

\* SQLAlchemyAdapter.rollback / UDOM.rollback
Rollback(t, a, ok) ==
  /\ CanOp(t)
  /\ LET R == rollback(Store, a, t, ok)
     IN /\ SetStore(R.s)
        /\ last' = Call(t, a, "rollback", R.r, R.s, <<>>)
        /\ Ended(a, t, "lost")
  /\ scope' = AfterOp(t)
  /\ UNCHANGED engVars

\* Entering `with db.transaction():` -- the helper's begin(); the body is
\* entered only when begin() returned.
TxEnter(t, a, drv) ==
  /\ scope[t].pc = "none"
  /\ LET B == begin(Store, a, t, drv)
     IN /\ SetStore(B.s)
        /\ last' = Call(t, a, "begin", B.r, B.s, <<>>)
        /\ scope' = [scope EXCEPT ![t] =
                       IF B.r = "ok"
                         THEN [NoScope EXCEPT !.pc = "body", !.adapter = a,
                                              !.events = <<"begin">>]
                         ELSE @]
  /\ UNCHANGED <<landed, discarded>>
  /\ UNCHANGED engVars

\* Leaving the block: the body returned or raised, and the helper commits
\* or rolls back.
TxExit(t, outcome, okCommit, okRollback) ==
  /\ scope[t].pc = "body"
  /\ outcome = "ok" => okRollback     \* the driver calls that are not made
  /\ outcome = "exc" => okCommit      \* are not inputs
  /\ LET a == scope[t].adapter
         X == transaction_exit(Store, a, t, outcome, okCommit, okRollback)
     IN /\ SetStore(X.s)
        /\ scope' = [scope EXCEPT ![t] = NoScope]
        /\ last' = [Call(t, a, "transaction", X.seen, X.s, <<>>)
                      EXCEPT !.outcome = outcome,
                             !.events = scope[t].events \o X.ev]
        /\ Ended(a, t, IF X.seen = "none" THEN "committed" ELSE "lost")
  /\ UNCHANGED engVars

\* UDOM.create on a relational Facade / SQLAlchemyAdapter.create
Create(t, a, entity, data) ==
  /\ CanOp(t)
  /\ nrows < MaxRows
  /\ LET X == create(Store, a, t, entity, data)
     IN /\ SetStore(X.s)
        /\ last' = [Call(t, a, "create", X.r, X.s, X.native)
                      EXCEPT !.entity = entity, !.data = data, !.on = X.on]
  /\ scope' = AfterOp(t)
  /\ UNCHANGED <<landed, discarded>>
  /\ UNCHANGED engVars

\* UDOM.find on a relational Facade / SQLAlchemyAdapter.find
Find(t, a, entity, where) ==
  /\ CanOp(t)
  /\ LET X == find(Store, a, t, entity, where)
     IN /\ SetStore(X.s)
        /\ last' = [Call(t, a, "find", X.r, X.s, X.native)
                      EXCEPT !.entity = entity, !.where = where, !.rows = X.rows,
                             !.on = X.on]
  /\ scope' = AfterOp(t)
  /\ UNCHANGED <<landed, discarded>>
  /\ UNCHANGED engVars

\* VectorAdapter.delete / AIAdapter.delete: the stub's run_native takes the
\* operation as it is.
StubDelete(entity, where) ==
  [r |-> "ok",
   native |-> <<Dict(<<Entry(<<"action">>, Quoted(<<"delete">>)),
                       Entry(<<"entity">>, Quoted(entity)),
                       Entry(<<"where">>, PyWhere(where))>>)>>]

\* VectorAdapter.convert_uql / AIAdapter.convert_uql followed by run_native
StubPassthrough(family, uql) ==
  [r |-> "ok",
   native |-> <<Dict(<<Entry(<<"action">>, Quoted(<<family, "_uql_passthrough">>)),
                       Entry(<<"db_instance">>,
                             Quoted(<<IF family = "vector" THEN "qdrant" ELSE "openai">>)),
                       Entry(<<"uql">>, Quoted(uql))>>)>>]

\* UDOM._to_uql_where; None is the empty string.
ToUqlWhere(where) ==
  CASE where.kind = "none" -> <<>>
    [] where.kind = "str" -> Strip(where.text)
    [] OTHER -> UqlPairs(where.items)

\* UDOM.uexecute of a DELETE statement on a non-relational Facade
UExecuteDelete(family, uql) ==
  IF Validate(uql) # "ok" THEN [r |-> "QueryError", native |-> <<>>]
  ELSE CASE family = "nosql" ->
              LET C == NoSqlConvertDelete(uql)
              IN IF C.r # "ok" THEN [r |-> C.r, native |-> <<>>]
                 ELSE NoSqlRunNative(C.q)
         [] family = "graph" ->
              LET C == GraphConvertDelete(uql)
              IN IF C.r # "ok" THEN [r |-> C.r, native |-> <<>>]
                 ELSE [r |-> "ok", native |-> <<C.q>>]
         [] OTHER -> StubPassthrough(family, uql)

\* The delete of the adapter of a backend family.
AdapterDelete(S, a, t, family, entity, where) ==
  IF family = "sql" THEN delete(S, a, t, entity, where)
  ELSE LET X == CASE family = "nosql" -> NoSqlDelete(entity, where)
                  [] family = "graph" -> GraphDelete(entity, where)
                  [] OTHER -> StubDelete(entity, where)
       IN [s |-> S, r |-> X.r, rows |-> {}, native |-> X.native, on |-> <<>>]

\* UDOM.delete
UdomDelete(S, a, t, family, entity, where) ==
  IF Strip(entity) = <<>> THEN Failed(S, "QueryError")
  ELSE IF family = "sql" THEN delete(S, a, t, Strip(entity), where)
  ELSE IF ToUqlWhere(where) = <<>> THEN Failed(S, "QueryError")
  ELSE LET X == UExecuteDelete(family, DeleteUql(Strip(entity), ToUqlWhere(where)))
       IN [s |-> S, r |-> X.r, rows |-> {}, native |-> X.native, on |-> <<>>]

Families == {"sql", "nosql", "graph", "vector", "ai"}

\* delete(entity, where) on the Facade (via = "facade") or on the adapter of
\* a backend family.
Delete(t, a, via, family, entity, where) ==
  /\ CanOp(t)
  /\ LET X == IF via = "facade" THEN UdomDelete(Store, a, t, family, entity, where)
              ELSE AdapterDelete(Store, a, t, family, entity, where)
     IN /\ SetStore(X.s)
        /\ last' = [Call(t, a, "delete", X.r, X.s, X.native)
                      EXCEPT !.family = family, !.via = via, !.where = where,
                             !.entity = entity, !.rows = X.rows, !.on = X.on]
  /\ scope' = AfterOp(t)
  /\ UNCHANGED <<landed, discarded>>
  /\ UNCHANGED engVars

\* --------------------------------- convert_uql of the non-relational adapters
\* str.split(ch)
RECURSIVE Split(_, _)
Split(s, ch) ==
  IF IndexOf(s, ch) = 0 THEN <<s>>
  ELSE <<SubSeq(s, 1, IndexOf(s, ch) - 1)>> \o Split(From(s, IndexOf(s, ch) + 1), ch)

\* The position of the last ch in s, 0 when there is none.
LastIndexOf(s, ch) ==
  IF \E i \in 1..Len(s) : s[i] = ch
    THEN CHOOSE i \in 1..Len(s) : s[i] = ch /\ \A j \in (i + 1)..Len(s) : s[j] # ch
    ELSE 0

\* re.match(r"CREATE\s+(\w+)\s*\{(.+)\}", uql, re.IGNORECASE): whether it
\* matches, group 1 and group 2.  The greedy (.+) runs up to the last brace.
NoCreate == [ok |-> FALSE, name |-> <<>>, body |-> <<>>]

CreateBody(name, r) ==
  IF r # <<>> /\ Head(r) = "{" /\ LastIndexOf(r, "}") >= 3
    THEN [ok |-> TRUE, name |-> name, body |-> SubSeq(r, 2, LastIndexOf(r, "}") - 1)]
    ELSE NoCreate

CreateName(rest, w) ==
  IF w >= 1 THEN CreateBody(SubSeq(rest, 1, w), LStrip(From(rest, w + 1)))
  ELSE NoCreate

CreateSpace(rest, sp) ==
  IF sp >= 1 THEN CreateName(From(rest, sp + 1), Run(From(rest, sp + 1), WordChars))
  ELSE NoCreate

CreateMatch(uql) ==
  IF StartsWith(ToUpper(uql), KwCREATE)
    THEN CreateSpace(From(uql, 7), Run(From(uql, 7), Space))
    ELSE NoCreate

\* `key, val = pair.split(":", 1)` for every pair of fields.split(","):
\* FALSE when a pair has no colon and the unpacking raises ValueError.
PairsOk(fields) ==
  \A i \in 1..Len(Split(fields, ",")) : IndexOf(Split(fields, ",")[i], ":") > 0

\* A dict filled key by key: a key keeps the place of its first assignment
\* and the value of its last one.
RECURSIVE DictItems(_, _, _)
DictItems(keys, vals, i) ==
  IF i > Len(keys) THEN <<>>
  ELSE (IF \A j \in 1..(i - 1) : keys[j] # keys[i]
          THEN << <<keys[i],
                    vals[CHOOSE j \in i..Len(keys) :
                           keys[j] = keys[i]
                           /\ \A k \in (j + 1)..Len(keys) : keys[k] # keys[i]]>> >>
          ELSE <<>>)
       \o DictItems(keys, vals, i + 1)

PairKeys(pairs) == [i \in 1..Len(pairs) |-> CutKey(pairs[i], ":")]

EntriesOf(items) == [i \in 1..Len(items) |-> Entry(items[i][1], items[i][2])]

\* NoSQLAdapter._parse_key_value_pairs
ParseKeyValuePairs(fields) ==
  Dict(EntriesOf(DictItems(PairKeys(Split(fields, ",")),
                           [i \in 1..Len(Split(fields, ",")) |->
                              CastValue(CutVal(Split(fields, ",")[i], ":"))],
                           1)))

\* A mapping with the single key "error": what NoSQLAdapter returns instead
\* of raising.
ErrorMapping(msg) == Dict(<<Entry(<<"error">>, Quoted(<<msg>>))>>)

IsErrorMapping(v) == Len(v) >= 3 /\ SubSeq(v, 1, 3) = <<"{", "error", ":">>

\* NoSQLAdapter.convert_uql for a FIND statement
NoSqlFindOf(m) ==
  IF ~m.ok THEN [r |-> "AttributeError", q |-> <<>>]
  ELSE [r |-> "ok",
        q |-> Dict(<<Entry(<<"find">>, Quoted(ToLower(m.name))),
                     Entry(<<"where">>, ConvertCondition(m.condition))>>)]

NoSqlConvertFind(uql) == NoSqlFindOf(ExtractMatch(Strip(uql)))

\* NoSQLAdapter.convert_uql for a CREATE statement the pattern matches
NoSqlInsertOf(m) ==
  IF ~PairsOk(m.body) THEN [r |-> "ValueError", q |-> <<>>]
  ELSE [r |-> "ok",
        q |-> Dict(<<Entry(<<"insert">>, Quoted(ToLower(m.name))),
                     Entry(<<"document">>, ParseKeyValuePairs(m.body))>>)]

\* NoSQLAdapter.convert_uql
NoSqlConvertUql(uql) ==
  IF StartsWith(ToUpper(Strip(uql)), KwFIND) THEN NoSqlConvertFind(uql)
  ELSE IF StartsWith(ToUpper(Strip(uql)), KwDELETE) THEN NoSqlConvertDelete(uql)
  ELSE IF CreateMatch(Strip(uql)).ok THEN NoSqlInsertOf(CreateMatch(Strip(uql)))
  ELSE [r |-> "ok", q |-> ErrorMapping("Unsupported or invalid UQL syntax")]

\* What the operations of a mongodb instance give back.
MongoResult(op) ==
  CASE op = "find" -> <<"[", "docs", "]">>
    [] op = "insert" -> Dict(<<Entry(<<"inserted_id">>, <<"id">>)>>)
    [] op = "delete" -> Dict(<<Entry(<<"deleted_count">>, <<"n">>)>>)
    [] OTHER -> Dict(<<Entry(<<"matched_count">>, <<"n">>),
                       Entry(<<"modified_count">>, <<"n">>)>>)

\* NoSQLAdapter.run_native on an operation dict of a mongodb instance: the
\* statements sent to the server and the value returned.
NoSqlRunQuery(q) ==
  IF q[2] \in {"find", "insert", "delete", "update"}
    THEN [r |-> "ok", native |-> <<q>>, ret |-> MongoResult(q[2])]
    ELSE [r |-> "ok", native |-> <<>>, ret |-> ErrorMapping("Unsupported Mongo operation.")]

\* GraphAdapter.convert_uql for a FIND statement
GraphFindOf(m) ==
  IF ~m.ok THEN [r |-> "QueryError", q |-> <<>>]
  ELSE [r |-> "ok",
        q |-> <<"M", "A", "T", "C", "H", " ", "(", "n", ":">> \o m.name \o <<")", " ">> \o ConvertConditions(m.condition)
                \o <<" ", "R", "E", "T", "U", "R", "N", " ", "n", ";">>]

GraphConvertFind(uql) == GraphFindOf(ExtractMatch(Strip(uql)))

\* GraphAdapter._convert_create_properties: the props dict, then its text.
PropItems(fields) ==
  DictItems(PairKeys(Split(fields, ",")),
            [j \in 1..Len(Split(fields, ",")) |->
               CypherValue(CutVal(Split(fields, ",")[j], ":"))],
            1)

PropsText(items) ==
  <<"{">> \o Join([i \in 1..Len(items) |-> items[i][1] \o <<":", " ">> \o items[i][2]], <<",", " ">>)
       \o <<"}">>

ConvertCreateProperties(fields) == PropsText(PropItems(fields))

\* GraphAdapter.convert_uql for a CREATE statement
GraphCreateOf(m) ==
  IF ~m.ok THEN [r |-> "QueryError", q |-> <<>>]
  ELSE IF ~PairsOk(m.body) THEN [r |-> "ValueError", q |-> <<>>]
  ELSE [r |-> "ok",
        q |-> <<"C", "R", "E", "A", "T", "E", " ", "(", "n", ":">> \o m.name \o <<" ">> \o ConvertCreateProperties(m.body)
                \o <<")", " ", "R", "E", "T", "U", "R", "N", " ", "n", ";">>]

\* GraphAdapter.convert_uql
GraphConvertUql(uql) ==
  IF StartsWith(ToUpper(Strip(uql)), KwFIND) THEN GraphConvertFind(uql)
  ELSE IF StartsWith(ToUpper(Strip(uql)), KwCREATE)
    THEN GraphCreateOf(CreateMatch(Strip(uql)))
  ELSE IF StartsWith(ToUpper(Strip(uql)), KwDELETE) THEN GraphConvertDelete(uql)
  ELSE [r |-> "QueryError", q |-> <<>>]


\* ------------------------------------------ SQLAlchemyAdapter.convert_uql
KwORDERBY == <<"O", "R", "D", "E", "R", " ", "B", "Y">>
KwLIMIT == <<"L", "I", "M", "I", "T">>
KwASC == <<"A", "S", "C">>
KwDESC == <<"D", "E", "S", "C">>

\* The length of the match of [A-Za-z_][A-Za-z0-9_]* at the start of s.
IdentRun(s) ==
  IF s # <<>> /\ Head(s) \in Lower \cup Upper \cup {"_"} THEN Run(s, WordChars) ELSE 0

\* A match of \s+kw\s+ at the start of s with text left after it: the
\* position of that text, 0 when there is no match.
ClauseAt(s, kw, sp) ==
  IF /\ sp >= 1
     /\ StartsWith(ToUpper(From(s, sp + 1)), kw)
     /\ Run(From(s, sp + Len(kw) + 1), Space) >= 1
     /\ sp + Len(kw) + Run(From(s, sp + Len(kw) + 1), Space) + 1 <= Len(s)
    THEN sp + Len(kw) + Run(From(s, sp + Len(kw) + 1), Space) + 1
    ELSE 0

ClauseStart(s, kw) == ClauseAt(s, kw, Run(s, Space))

\* (?:\s+LIMIT\s+(\d+))?$ on what is left of the statement
IsLimitClause(s) ==
  ClauseStart(s, KwLIMIT) > 0 /\ IsDigits(From(s, ClauseStart(s, KwLIMIT)))

LimitTail(s) == s = <<>> \/ IsLimitClause(s)

\* (?:\s+ORDER BY\s+(.+?))?(?:\s+LIMIT\s+(\d+))?$ on what is left
OrderTail(s) == ClauseStart(s, KwORDERBY) > 0 \/ LimitTail(s)

\* The lazy (.+?): the shortest non-empty prefix of body after which the
\* rest of the pattern matches.
ShortestCut(body, Rest(_)) ==
  CHOOSE e \in 1..Len(body) :
    Rest(From(body, e + 1)) /\ \A d \in 1..(e - 1) : ~Rest(From(body, d + 1))

NoFind == [ok |-> FALSE, entity |-> <<>>, where |-> <<>>, order_by |-> <<>>,
           limit |-> <<>>]

FindLimit(entity, where, order, rem) ==
  [ok |-> TRUE, entity |-> entity, where |-> where, order_by |-> order,
   limit |-> IF rem = <<>> THEN <<>> ELSE From(rem, ClauseStart(rem, KwLIMIT))]

FindOrderCut(entity, where, body, e) ==
  FindLimit(entity, where, SubSeq(body, 1, e), From(body, e + 1))

FindOrder(entity, where, rem) ==
  IF ClauseStart(rem, KwORDERBY) > 0
    THEN FindOrderCut(entity, where, From(rem, ClauseStart(rem, KwORDERBY)),
                      ShortestCut(From(rem, ClauseStart(rem, KwORDERBY)), LimitTail))
    ELSE FindLimit(entity, where, <<>>, rem)

FindWhereCut(entity, body, e) == FindOrder(entity, SubSeq(body, 1, e), From(body, e + 1))

FindTail(entity, tail) ==
  IF ClauseStart(tail, KwWHERE) > 0
    THEN FindWhereCut(entity, From(tail, ClauseStart(tail, KwWHERE)),
                      ShortestCut(From(tail, ClauseStart(tail, KwWHERE)), OrderTail))
  ELSE IF OrderTail(tail) THEN FindOrder(entity, <<>>, tail)
  ELSE NoFind

FindName(rest, w) ==
  IF w >= 1 THEN FindTail(SubSeq(rest, 1, w), From(rest, w + 1)) ELSE NoFind

\* re.match(r"FIND\s+([A-Za-z_][A-Za-z0-9_]*)(?:\s+WHERE\s+(.+?))?
\*            (?:\s+ORDER BY\s+(.+?))?(?:\s+LIMIT\s+(\d+))?$", uql, re.IGNORECASE)
\* on a statement that starts with "FIND ": the groups, <<>> for None.
SqlFindMatch(uql) == FindName(LStrip(From(uql, 5)), IdentRun(LStrip(From(uql, 5))))

\* The text convert_uql builds for a FIND statement.
SqlFindText(m) ==
  <<"SELECT * FROM ">> \o Quote(m.entity)
    \o (IF m.where # <<>> THEN <<" WHERE ">> \o m.where ELSE <<>>)
    \o (IF m.order_by # <<>> THEN <<" ORDER BY ">> \o m.order_by ELSE <<>>)
    \o (IF m.limit # <<>> THEN <<" LIMIT ">> \o IntStr(StrInt(m.limit)) ELSE <<>>)

NoDelete == [ok |-> FALSE, entity |-> <<>>, where |-> <<>>]

DeleteTail(entity, tail) ==
  IF ClauseStart(tail, KwWHERE) > 0
    THEN [ok |-> TRUE, entity |-> entity, where |-> From(tail, ClauseStart(tail, KwWHERE))]
  ELSE IF tail = <<>> THEN [ok |-> TRUE, entity |-> entity, where |-> <<>>]
  ELSE NoDelete

DeleteName(rest, w) ==
  IF w >= 1 THEN DeleteTail(SubSeq(rest, 1, w), From(rest, w + 1)) ELSE NoDelete

\* re.match(r"DELETE\s+([A-Za-z_][A-Za-z0-9_]*)(?:\s+WHERE\s+(.+))?$", ...)
\* on a statement that starts with "DELETE ".
SqlDeleteMatch(uql) == DeleteName(LStrip(From(uql, 7)), IdentRun(LStrip(From(uql, 7))))

SqlCreateBody(name, r) ==
  IF r # <<>> /\ Head(r) = "{" /\ Len(r) >= 3 /\ r[Len(r)] = "}"
    THEN [ok |-> TRUE, name |-> name, body |-> SubSeq(r, 2, Len(r) - 1)]
    ELSE NoCreate

SqlCreateName(rest, w) ==
  IF w >= 1 THEN SqlCreateBody(SubSeq(rest, 1, w), LStrip(From(rest, w + 1)))
  ELSE NoCreate

\* re.match(r"CREATE\s+([A-Za-z_][A-Za-z0-9_]*)\s*\{(.+)\}$", ...) on a
\* statement that starts with "CREATE ".
SqlCreateMatch(uql) ==
  SqlCreateName(LStrip(From(uql, 7)), IdentRun(LStrip(From(uql, 7))))

\* [p.strip() for p in body.split(",") if p.strip()]
CreatePairs(body) ==
  SelectSeq([i \in 1..Len(Split(body, ",")) |-> Strip(Split(body, ",")[i])],
            LAMBDA p : p # <<>>)

\* The dict `{c.strip('"`[]'): "" for c in cols}` handed to _ensure_table:
\* every column once, with an empty string as its value.
CreateColumns(keys) ==
  DictItems(keys, [i \in 1..Len(keys) |-> [t |-> "str", v |-> <<>>]], 1)

\* The text convert_uql builds for a CREATE statement: the values are
\* written into the text as they stand in the statement.
SqlCreateText(entity, keys, vals) ==
  <<"INSERT INTO ">> \o Quote(entity) \o <<" (">>
    \o Join([i \in 1..Len(keys) |-> Quote(keys[i])], <<", ">>)
    \o <<") VALUES (">>
    \o Join(vals, <<", ">>)
    \o <<")">>


\* ------------------------------------------- statements run on the store
\* One ORDER BY term as the store reads it: a column, then ASC or DESC.
NoOrder == [field |-> <<>>, desc |-> FALSE]

EndsWithWord(s, w) ==
  /\ Len(s) > Len(w) + 1
  /\ ToUpper(From(s, Len(s) - Len(w) + 1)) = w
  /\ s[Len(s) - Len(w)] \in Space

OrderTerm(text) ==
  IF text = <<>> THEN NoOrder
  ELSE IF EndsWithWord(text, KwDESC)
    THEN [field |-> RStrip(SubSeq(text, 1, Len(text) - 4)), desc |-> TRUE]
  ELSE IF EndsWithWord(text, KwASC)
    THEN [field |-> RStrip(SubSeq(text, 1, Len(text) - 3)), desc |-> FALSE]
  ELSE [field |-> text, desc |-> FALSE]

\* The columns of the tables of the store.
SqlColumns == {KName, <<"i", "d">>}

SqlOrderOk(ord) == ord = NoOrder \/ ord.field \in SqlColumns

\* The value a row is ordered by.
RowKey(row, ord) ==
  IF \E i \in 1..Len(row.data) : row.data[i][1] = ord.field /\ row.data[i][2].t = "int"
    THEN row.data[CHOOSE i \in 1..Len(row.data) : row.data[i][1] = ord.field][2].v
    ELSE row.id

RowBefore(x, y, ord) ==
  \/ (~ord.desc /\ RowKey(x, ord) < RowKey(y, ord))
  \/ (ord.desc /\ RowKey(x, ord) > RowKey(y, ord))
  \/ (RowKey(x, ord) = RowKey(y, ord) /\ x.id < y.id)

\* The first n rows in the order asked for; a limit of <<>> is no limit.
TopRows(rows, ord, limit) ==
  IF limit = <<>> THEN rows
  ELSE {r \in rows : Cardinality({x \in rows : RowBefore(x, r, ord)}) < limit[1]}

\* SELECT on connection c: the error of the store or the rows selected.
SqlSelect(S, c, entity, where, ord, limit) ==
  IF entity \in S.tables /\ SqlWhereOk(where) /\ SqlOrderOk(ord)
    THEN [r |-> "ok", rows |-> TopRows(SqlMatching(S, c, entity, where), ord, limit)]
    ELSE [r |-> "QueryError", rows |-> {}]

\* A literal of a VALUES list as the store reads it: digits or a quoted string.
IsLiteral(val) ==
  \/ IsDigits(val)
  \/ (Len(val) >= 2 /\ val[1] = "'" /\ val[Len(val)] = "'"
      /\ \A i \in 2..(Len(val) - 1) : val[i] # "'")

LiteralValue(val) ==
  IF IsDigits(val) THEN IntVal(StrInt(val))
  ELSE [t |-> "str", v |-> SubSeq(val, 2, Len(val) - 1)]

\* INSERT with the values written in the text: the store rejects a statement
\* without columns, with a column named twice or with a value it cannot read.
SqlInsertRawOk(keys, vals) ==
  /\ keys # <<>>
  /\ \A i, j \in 1..Len(keys) : keys[i] = keys[j] => i = j
  /\ \A i \in 1..Len(vals) : IsLiteral(vals[i])

\* ------------------------------------- SQLAlchemyAdapter.find with options
\* re.fullmatch(r"([A-Za-z_][A-Za-z0-9_]*)(?:\s+(ASC|DESC))?", safe_order,
\* re.IGNORECASE)
OrderByRest(rest) ==
  rest = <<>> \/ (Run(rest, Space) >= 1 /\ ToUpper(LStrip(rest)) \in {KwASC, KwDESC})

OrderByOk(s) == IdentRun(s) >= 1 /\ OrderByRest(From(s, IdentRun(s) + 1))

OrderByField(s) == SubSeq(s, 1, IdentRun(s))

OrderByDesc(s) == ToUpper(LStrip(From(s, IdentRun(s) + 1))) = KwDESC

\* The text find appends for order_by and limit.
OrderSql(order_by) ==
  IF order_by = <<>> THEN <<>>
  ELSE <<" ORDER BY ">> \o Quote(OrderByField(Strip(order_by)))
         \o <<" ", IF OrderByDesc(Strip(order_by)) THEN "DESC" ELSE "ASC">>

LimitSql(limit) == IF limit = <<>> THEN <<>> ELSE <<" LIMIT :limit_value">>

FindSelected(S, sql, R) ==
  [s |-> S, r |-> R.r, rows |-> R.rows, native |-> <<sql>>]

\* A where string that holds a second statement: text, a semicolon, text.
IsScript(where) ==
  /\ where.kind = "str"
  /\ IndexOf(where.text, ";") > 0
  /\ Strip(From(where.text, IndexOf(where.text, ";") + 1)) # <<>>

\* The table a DROP TABLE statement names, <<>> for any other text.
KwDROPTABLE == <<"D", "R", "O", "P", " ", "T", "A", "B", "L", "E", " ">>

DropTarget(stmt) ==
  IF StartsWith(ToUpper(stmt), KwDROPTABLE)
       /\ IsIdentifier(StripChar(From(stmt, Len(KwDROPTABLE) + 1), "\""))
    THEN StripChar(From(stmt, Len(KwDROPTABLE) + 1), "\"")
    ELSE <<>>

\* DROP TABLE as the store runs it.
SqlDropTable(S, entity) ==
  [S EXCEPT !.tables = @ \ {entity},
            !.committed = {r \in @ : r.e # entity},
            !.gone = @ \cup {r.id : r \in {x \in S.committed : x.e = entity}}]

\* SELECT ... WHERE <condition>; <statement> handed to the driver in one
\* execute.  A driver that takes one statement per call (sqlite3, pymysql)
\* refuses the text; one that takes several (psycopg2) runs them in turn and
\* returns the result of the last.
SqlScript(S, sql, entity, where, tail, drv) ==
  IF /\ drv = "many"
     /\ entity \in S.tables
     /\ SqlCondOk(SubSeq(where.text, 1, IndexOf(where.text, ";") - 1))
     /\ DropTarget(Strip(From(where.text, IndexOf(where.text, ";") + 1)) \o tail) \in S.tables
    THEN [s |-> SqlDropTable(S, DropTarget(Strip(From(where.text,
                                                      IndexOf(where.text, ";") + 1)) \o tail)),
          r |-> "ok", rows |-> {}, native |-> <<sql>>]
    ELSE [s |-> S, r |-> "QueryError", rows |-> {}, native |-> <<sql>>]

\* SQLAlchemyAdapter.find; an order_by of None and a limit of None are <<>>,
\* drv is how many statements the driver of the dialect takes per execute.
find_with(S, a, t, entity, where, order_by, limit, drv) ==
  IF ~IsIdentifier(entity) \/ ~WhereKeysOk(where) THEN Failed(S, "QueryError")
  ELSE IF order_by # <<>> /\ ~OrderByOk(Strip(order_by)) THEN Failed(S, "QueryError")
  ELSE IF limit # <<>> /\ limit[1] <= 0 THEN Failed(S, "QueryError")
  ELSE IF IsScript(where)
    THEN SqlScript(S, <<"SELECT * FROM ">> \o Quote(entity) \o WhereSql(where)
                        \o OrderSql(order_by) \o LimitSql(limit),
                   entity, where, OrderSql(order_by) \o LimitSql(limit), drv)
  ELSE FindSelected(S,
         <<"SELECT * FROM ">> \o Quote(entity) \o WhereSql(where)
           \o OrderSql(order_by) \o LimitSql(limit),
         SqlSelect(S, ActiveConnection(S, a, t), entity, where,
                   IF order_by = <<>> THEN NoOrder
                   ELSE [field |-> OrderByField(Strip(order_by)),
                         desc |-> OrderByDesc(Strip(order_by))],
                   limit))


\* ------------------------------------------------------------ UDOM.uexecute
\* What uexecute did: the store after it, the error raised, the query
\* convert_uql compiled, the statements issued, the value returned, the names
\* written into the query and, for a DELETE, the filter compiled.
UqlOut(S, r, q, native, ret, names, filter) ==
  [s |-> S, r |-> r, q |-> q, native |-> native, ret |-> ret, names |-> names,
   filter |-> filter]

UqlFailed(S, r) == UqlOut(S, r, <<>>, <<>>, <<>>, <<>>, <<>>)

\* What run_native of the relational adapter returns.
RowsList == <<"[", "rows", "]">>
RowsAffected == Dict(<<Entry(<<"rows_affected">>, <<"n">>)>>)

\* convert_uql and run_native of the relational adapter on a FIND statement
SqlRunFind(S, a, t, m, R) ==
  UqlOut(S, R.r, SqlFindText(m), <<SqlFindText(m)>>,
         IF R.r = "ok" THEN RowsList ELSE <<>>,
         <<m.entity>> \o (IF m.order_by = <<>> THEN <<>> ELSE <<OrderTerm(m.order_by).field>>),
         <<>>)

SqlFind(S, a, t, m) ==
  IF ~m.ok THEN UqlFailed(S, "QueryError")
  ELSE SqlRunFind(S, a, t, m,
         SqlSelect(S, ActiveConnection(S, a, t), m.entity,
                   IF m.where = <<>> THEN NoWhere ELSE StrWhere(m.where),
                   OrderTerm(m.order_by),
                   IF m.limit = <<>> THEN <<>> ELSE <<StrInt(m.limit)>>))

\* ... on a DELETE statement: the text and the effect are those of delete()
\* with the condition as a where string.
SqlRunDelete(m, D) ==
  UqlOut(D.s, D.r, D.native[1], D.native,
         IF D.r = "ok" THEN RowsAffected ELSE <<>>, <<m.entity>>, m.where)

SqlDeleteUql(S, a, t, m) ==
  IF ~m.ok \/ m.where = <<>> THEN UqlFailed(S, "QueryError")
  ELSE SqlRunDelete(m, delete(S, a, t, m.entity, StrWhere(m.where)))

\* ... on a CREATE statement: convert_uql creates the table, run_native
\* inserts the row the text spells out.
SqlRunCreate(S, c, entity, keys, vals) ==
  UqlOut(IF SqlInsertRawOk(keys, vals)
           THEN SqlInsert(S, c, entity,
                          [i \in 1..Len(keys) |-> <<keys[i], LiteralValue(vals[i])>>])
           ELSE S,
         IF SqlInsertRawOk(keys, vals) THEN "ok" ELSE "QueryError",
         SqlCreateText(entity, keys, vals),
         <<EnsureTableSql(entity, CreateColumns(keys)), SqlCreateText(entity, keys, vals)>>,
         IF SqlInsertRawOk(keys, vals) THEN RowsAffected ELSE <<>>,
         <<entity>> \o keys,
         <<>>)

SqlCreatePairs(S, a, t, entity, pairs) ==
  IF \E i \in 1..Len(pairs) : IndexOf(pairs[i], ":") = 0 \/ ~IsIdentifier(CutKey(pairs[i], ":"))
    THEN UqlFailed(S, "QueryError")
    ELSE SqlRunCreate([S EXCEPT !.tables = @ \cup {entity}], ActiveConnection(S, a, t),
                      entity, PairKeys(pairs),
                      [i \in 1..Len(pairs) |-> CutVal(pairs[i], ":")])

SqlCreateUql(S, a, t, m) ==
  IF ~m.ok THEN UqlFailed(S, "QueryError")
  ELSE SqlCreatePairs(S, a, t, m.name, CreatePairs(m.body))

\* SQLAlchemyAdapter.convert_uql followed by run_native
SqlConvertRun(S, a, t, uql) ==
  IF StartsWith(ToUpper(uql), KwFIND \o <<" ">>) THEN SqlFind(S, a, t, SqlFindMatch(uql))
  ELSE IF StartsWith(ToUpper(uql), KwDELETE \o <<" ">>)
    THEN SqlDeleteUql(S, a, t, SqlDeleteMatch(uql))
  ELSE IF StartsWith(ToUpper(uql), KwCREATE \o <<" ">>)
    THEN SqlCreateUql(S, a, t, SqlCreateMatch(uql))
  ELSE UqlFailed(S, "QueryError")

\* The names GraphAdapter writes into a query: the label and the left side
\* of every clause.
GraphClauseKey(part) ==
  IF IndexOf(part, ">") > 0 THEN <<CutKey(part, ">")>>
  ELSE IF IndexOf(part, "<") > 0 THEN <<CutKey(part, "<")>>
  ELSE IF IndexOf(part, "=") > 0 THEN <<CutKey(part, "=")>>
  ELSE <<>>

RECURSIVE Flatten(_)
Flatten(ss) == IF ss = <<>> THEN <<>> ELSE Head(ss) \o Flatten(Tail(ss))

GraphConditionKeys(condition) ==
  IF condition = <<>> THEN <<>>
  ELSE Flatten([i \in 1..Len(SplitWord(condition, KwAND)) |->
                  GraphClauseKey(SplitWord(condition, KwAND)[i])])

GraphNames(uql) ==
  IF CreateMatch(uql).ok /\ StartsWith(ToUpper(uql), KwCREATE)
    THEN <<CreateMatch(uql).name>> \o Keys(PropItems(CreateMatch(uql).body))
    ELSE <<ExtractMatch(uql).name>> \o GraphConditionKeys(ExtractMatch(uql).condition)

\* GraphAdapter.convert_uql followed by run_native, which returns the query
\* for the caller's driver.
GraphRun(S, uql, C) ==
  IF C.r # "ok" THEN UqlFailed(S, C.r)
  ELSE UqlOut(S, "ok", C.q, <<C.q>>, C.q, GraphNames(Strip(uql)),
              ConvertConditions(ExtractMatch(Strip(uql)).condition))

\* NoSQLAdapter.convert_uql followed by run_native.  run_native takes a
\* mapping with the key "error" for an operation it does not support.
NoSqlRun(S, uql, C, R) ==
  IF C.r # "ok" THEN UqlFailed(S, C.r)
  ELSE UqlOut(S, R.r, C.q, R.native, R.ret, <<>>,
              ConvertCondition(ExtractMatch(Strip(uql)).condition))

\* VectorAdapter / AIAdapter: convert_uql wraps the statement, run_native
\* returns a mapping that holds it.
StubRun(S, family, uql) ==
  UqlOut(S, "ok", StubPassthrough(family, uql).native[1],
         StubPassthrough(family, uql).native,
         Dict(<<Entry(<<"db_type">>, Quoted(<<family>>)),
                Entry(<<"native_query">>, StubPassthrough(family, uql).native[1])>>),
         <<>>, <<>>)

\* UDOM.uexecute
uexecute(S, a, t, family, uql) ==
  IF Validate(uql) # "ok" THEN UqlFailed(S, "QueryError")
  ELSE CASE family = "sql" -> SqlConvertRun(S, a, t, Strip(uql))
         [] family = "nosql" ->
              NoSqlRun(S, uql, NoSqlConvertUql(uql),
                       IF NoSqlConvertUql(uql).r = "ok"
                         THEN NoSqlRunQuery(NoSqlConvertUql(uql).q)
                         ELSE [r |-> "", native |-> <<>>, ret |-> <<>>])
         [] family = "graph" -> GraphRun(S, uql, GraphConvertUql(uql))
         [] OTHER -> StubRun(S, family, uql)


\* ------------------------------------------------- find with order and limit
\* UDOM._build_find_uql
BuildFindUql(entity, where, order_by, limit) ==
  KwFIND \o <<" ">> \o entity
    \o (IF ToUqlWhere(where) # <<>> THEN <<" ">> \o KwWHERE \o <<" ">> \o ToUqlWhere(where)
        ELSE <<>>)
    \o (IF order_by # <<>> THEN <<" ">> \o KwORDERBY \o <<" ">> \o order_by ELSE <<>>)
    \o (IF limit # <<>> THEN <<" ">> \o KwLIMIT \o <<" ">> \o IntStr(limit[1]) ELSE <<>>)

\* NoSQLAdapter.find
NoSqlFind(S, entity, where, order_by, limit, R) ==
  IF order_by # <<>> \/ limit # <<>> THEN UqlFailed(S, "QueryError")
  ELSE UqlOut(S, R.r, <<>>, R.native, R.ret, <<>>, <<>>)

NoSqlFindQuery(entity, where) ==
  Dict(<<Entry(<<"find">>, Quoted(ToLower(entity))),
         Entry(<<"where">>, CASE where.kind = "none" -> EmptyDict
                              [] where.kind = "map" -> PyWhere(where)
                              [] OTHER -> ConvertCondition(where.text))>>)

\* GraphAdapter.find
GraphFind(S, entity, where, order_by, limit) ==
  IF order_by # <<>> \/ limit # <<>> THEN UqlFailed(S, "QueryError")
  ELSE GraphRun(S, BuildFindUql(entity, StrWhere(NormalizeWhere(where)), <<>>, <<>>),
                GraphConvertUql(BuildFindUql(entity, StrWhere(NormalizeWhere(where)),
                                             <<>>, <<>>)))

\* VectorAdapter.find / AIAdapter.find
StubFindQuery(entity, where, order_by, limit) ==
  Dict(<<Entry(<<"action">>, Quoted(<<"find">>)),
         Entry(<<"entity">>, Quoted(entity)),
         Entry(<<"where">>, PyWhere(where)),
         Entry(<<"order_by">>, IF order_by = <<>> THEN <<"None">> ELSE Quoted(order_by)),
         Entry(<<"limit">>, IF limit = <<>> THEN <<"None">> ELSE IntStr(limit[1]))>>)

StubFind(S, family, q) ==
  UqlOut(S, "ok", <<>>, <<q>>,
         Dict(<<Entry(<<"db_type">>, Quoted(<<family>>)), Entry(<<"native_query">>, q)>>),
         <<>>, <<>>)

\* The names find() of the relational adapter writes into its text.
SqlFindNames(entity, where, order_by) ==
  <<entity>> \o Keys(where.items)
    \o (IF order_by = <<>> THEN <<>> ELSE <<OrderByField(Strip(order_by))>>)

SqlFindWith(entity, where, order_by, F) ==
  UqlOut(F.s, F.r, <<>>, F.native, IF F.r = "ok" THEN RowsList ELSE <<>>,
         IF F.native = <<>> THEN <<>> ELSE SqlFindNames(entity, where, order_by), <<>>)

\* find(entity, where, order_by, limit) of the adapter of a backend family
AdapterFind(S, a, t, family, entity, where, order_by, limit, drv) ==
  CASE family = "sql" ->
         SqlFindWith(entity, where, order_by,
                     find_with(S, a, t, entity, where, order_by, limit, drv))
    [] family = "nosql" ->
         NoSqlFind(S, entity, where, order_by, limit,
                   NoSqlRunQuery(NoSqlFindQuery(entity, where)))
    [] family = "graph" -> GraphFind(S, entity, where, order_by, limit)
    [] OTHER -> StubFind(S, family, StubFindQuery(entity, where, order_by, limit))

\* UDOM.find
UdomFind(S, a, t, family, entity, where, order_by, limit, drv) ==
  IF Strip(entity) = <<>> THEN UqlFailed(S, "QueryError")
  ELSE IF family = "sql"
    THEN AdapterFind(S, a, t, family, Strip(entity), where, order_by, limit, drv)
  ELSE uexecute(S, a, t, family, BuildFindUql(Strip(entity), where, order_by, limit))

\* The record of a call that went through uexecute or find.
UqlCall(t, a, op, family, X) ==
  [Call(t, a, op, X.r, X.s, X.native)
     EXCEPT !.family = family, !.q = X.q, !.ret = X.ret, !.names = X.names,
            !.filter = X.filter]

\* UDOM.uexecute(uql) on the Facade of a backend family
UExecute(t, a, family, uql) ==
  /\ CanOp(t)
  /\ nrows < MaxRows
  /\ LET X == uexecute(Store, a, t, family, uql)
     IN /\ SetStore(X.s)
        /\ last' = [UqlCall(t, a, "uexecute", family, X)
                      EXCEPT !.via = "facade", !.uql = uql]
  /\ scope' = AfterOp(t)
  /\ UNCHANGED <<landed, discarded>>
  /\ UNCHANGED engVars

\* find(entity, where, order_by, limit) on the Facade (via = "facade") or on
\* the adapter of a backend family; drv is the driver of a relational one
FindWith(t, a, via, family, entity, where, order_by, limit, drv) ==
  /\ CanOp(t)
  /\ LET X == IF via = "facade"
                THEN UdomFind(Store, a, t, family, entity, where, order_by, limit, drv)
                ELSE AdapterFind(Store, a, t, family, entity, where, order_by, limit, drv)
     IN /\ SetStore(X.s)
        /\ last' = [UqlCall(t, a, "find", family, X)
                      EXCEPT !.via = via, !.entity = entity, !.where = where,
                             !.order_by = order_by, !.limit = limit,
                             !.driver = IF family = "sql" THEN drv ELSE ""]
  /\ scope' = AfterOp(t)
  /\ UNCHANGED <<landed, discarded>>
  /\ UNCHANGED engVars

\* The statements given to uexecute.
UqlTexts ==
  {<<"D", "E", "L", "E", "T", "E", " ", "T">>, <<"D", "E", "L", "E", "T", "E", " ", "T", " ", "W", "H", "E", "R", "E", " ", "k", " ", "=", " ", "1">>, <<"D", "E", "L", "E", "T", "E", " ", "T", " ", "W", "H", "E", "R", "E", " ", "f", "o", "o">>,
   <<"D", "E", "L", "E", "T", "E", " ", "T", "-", "x", " ", "W", "H", "E", "R", "E", " ", "k", " ", "=", " ", "1">>, <<"D", "E", "L", "E", "T", "E">>,
   <<"F", "I", "N", "D", " ", "T">>, <<"F", "I", "N", "D", " ", "T", " ", "W", "H", "E", "R", "E", " ", "k", " ", "=", " ", "1">>, <<"F", "I", "N", "D", " ", "1", "T">>, <<"F", "I", "N", "D", " ", "T", " ", "W", "H", "E", "R", "E", " ", "a", "-", "b", " ", "=", " ", "1">>,
   <<"F", "I", "N", "D", " ", "T", " ", "O", "R", "D", "E", "R", " ", "B", "Y", " ", "k">>, <<"F", "I", "N", "D", " ", "T", " ", "O", "R", "D", "E", "R", " ", "B", "Y", " ", "1", "k">>, <<"F", "I", "N", "D", " ", "T", " ", "L", "I", "M", "I", "T", " ", "1">>,
   <<"F", "I", "N", "D", " ", "T", " ", "W", "H", "E", "R", "E", " ", "k", " ", "=", " ", "1", " ", "O", "R", "D", "E", "R", " ", "B", "Y", " ", "k", " ", "D", "E", "S", "C", " ", "L", "I", "M", "I", "T", " ", "1">>, <<"F", "I", "N", "D", "X">>,
   <<"C", "R", "E", "A", "T", "E", " ", "T", " ", "{", "k", ":", " ", "x", "}">>, <<"C", "R", "E", "A", "T", "E", " ", "T", " ", "{", "}">>, <<"C", "R", "E", "A", "T", "E", " ", "T", " ", "{", "1", "k", ":", " ", "1", "}">>, <<"C", "R", "E", "A", "T", "E", " ", "T", " ", "{", "k", "}">>,
   <<"U", "P", "D", "A", "T", "E", " ", "T", " ", "S", "E", "T", " ", "k", " ", "=", " ", "1">>, <<"D", "R", "O", "P", " ", "T">>, <<"F", "I", "N", "D", " ", "T", ";", " ", "D", "R", "O", "P", " ", "T", "A", "B", "L", "E", " ", "T">>, <<"F", "I", "N", "D", " ", "T", " ", "-", "-", " ", "x">>}

\* The arguments given to find.
FindWheres == {NoWhere, MapWhere(<< <<KName, IntVal(1)>> >>)}
FindOrders == {<<>>, KName, <<"k", " ", "D", "E", "S", "C">>, <<"1", "k">>}
FindLimits == {<<>>, <<1>>}


\* ------------------------------------------- SQLAlchemyAdapter.create_many
InsertManyKey(entity, cols) ==
  <<"insert_many:">> \o entity \o <<":">> \o Join(cols, <<",">>)

\* The rows create_many rejects: none at all, a row that is not a valid
\* payload, a row whose keys are not those of the first row in its order.
ValidRows(rows) ==
  /\ rows # <<>>
  /\ \A i \in 1..Len(rows) : ValidData(rows[i])
  /\ \A i \in 1..Len(rows) : Keys(rows[i]) = Keys(rows[1])

\* executemany: one INSERT per row on connection c.
RECURSIVE SqlInsertAll(_, _, _, _)
SqlInsertAll(S, c, entity, rows) ==
  IF rows = <<>> THEN S
  ELSE SqlInsertAll(SqlInsert(S, c, entity, Head(rows)), c, entity, Tail(rows))

\* The text taken from the prepared-statement cache of adapter a, or built
\* and stored there.
Prepared(S, a, key, sql) ==
  IF \E p \in S.prepared[a] : p.key = key
    THEN [s |-> S, sql |-> (CHOOSE p \in S.prepared[a] : p.key = key).sql]
    ELSE [s |-> [S EXCEPT !.prepared[a] = @ \cup {[key |-> key, sql |-> sql]}],
          sql |-> sql]

CreatedMany(c, entity, rows, ddl, P) ==
  [s |-> SqlInsertAll(P.s, c, entity, rows), r |-> "ok", rows |-> {},
   native |-> <<ddl, P.sql>>]

\* SQLAlchemyAdapter.create_many
create_many(S, a, t, entity, rows) ==
  IF ~IsIdentifier(entity) \/ ~ValidRows(rows) THEN Failed(S, "QueryError")
  ELSE CreatedMany(ActiveConnection(S, a, t), entity, rows,
                   EnsureTableSql(entity, rows[1]),
                   Prepared([S EXCEPT !.tables = @ \cup {entity}], a,
                            InsertManyKey(entity, Keys(rows[1])),
                            InsertSql(entity, Keys(rows[1]))))

\* UDOM.create_many on a relational Facade / SQLAlchemyAdapter.create_many
CreateMany(t, a, entity, rows) ==
  /\ CanOp(t)
  /\ nrows + Len(rows) <= MaxRows
  /\ LET X == create_many(Store, a, t, entity, rows)
     IN /\ SetStore(X.s)
        /\ last' = [Call(t, a, "create_many", X.r, X.s, X.native)
                      EXCEPT !.entity = entity, !.data = rows]
  /\ scope' = AfterOp(t)
  /\ UNCHANGED <<landed, discarded>>
  /\ UNCHANGED engVars


\* ------------------------------------------------------- ConnectionManager
\* A thread's call of get_engine: where it is (pc), the url asked for, the
\* local variable `engine`, and what the last call gave back (ret, result).
NoGet == [pc |-> "none", url |-> "", engine |-> None, ret |-> None, result |-> ""]

\* threading.RLock taken without mutual exclusion.
LockIgnored(t) == TRUE

\* threading.RLock: free, or held by the calling thread.
LockFree(t) == lock = "" \/ lock = t

\* The identity of the next Engine object create_engine returns.
NewEngine == 1 + built["u1"] + built["u2"]

\* get_engine, line 74: `with self._lock:`
GeEnter(t, u) ==
  /\ ge[t].pc = "none"
  /\ LockFree(t)
  /\ lock' = t
  /\ ge' = [ge EXCEPT ![t] = [NoGet EXCEPT !.pc = "lookup", !.url = u]]
  /\ UNCHANGED <<engines, built, cm>>
  /\ UNCHANGED txVars

\* get_engine, lines 75-77: the cache is read; a cached engine is returned.
GeLookup(t) ==
  /\ ge[t].pc = "lookup"
  /\ LET e == engines[ge[t].url]
     IN IF e # None
          THEN /\ ge' = [ge EXCEPT ![t].pc = "none", ![t].engine = e,
                                   ![t].ret = e, ![t].result = "ok"]
               /\ lock' = ""
          ELSE /\ ge' = [ge EXCEPT ![t].pc = "build"]
               /\ lock' = lock
  /\ UNCHANGED <<engines, built, cm>>
  /\ UNCHANGED txVars

\* get_engine, lines 78-89 and 99-100: parse_url and create_engine; when one
\* of them raises the call ends with ConnectionError.
GeBuild(t, ok) ==
  /\ ge[t].pc = "build"
  /\ IF ok
       THEN /\ ge' = [ge EXCEPT ![t].pc = "publish", ![t].engine = NewEngine]
            /\ built' = [built EXCEPT ![ge[t].url] = @ + 1]
            /\ lock' = lock
       ELSE /\ ge' = [ge EXCEPT ![t].pc = "none", ![t].result = "ConnectionError"]
            /\ built' = built
            /\ lock' = ""
  /\ UNCHANGED <<engines, cm>>
  /\ UNCHANGED txVars

\* get_engine, line 90: `self._engines[url] = engine`
GePublish(t) ==
  /\ ge[t].pc = "publish"
  /\ engines' = [engines EXCEPT ![ge[t].url] = ge[t].engine]
  /\ ge' = [ge EXCEPT ![t].pc = "log"]
  /\ UNCHANGED <<built, lock, cm>>
  /\ UNCHANGED txVars

\* get_engine, lines 91-100: log_event, then the engine is returned; when
\* log_event raises the call ends with ConnectionError.
GeReturn(t, ok) ==
  /\ ge[t].pc = "log"
  /\ ge' = [ge EXCEPT ![t].pc = "none",
                      ![t].ret = IF ok THEN ge[t].engine ELSE None,
                      ![t].result = IF ok THEN "ok" ELSE "ConnectionError"]
  /\ lock' = ""
  /\ UNCHANGED <<engines, built, cm>>
  /\ UNCHANGED txVars

\* ---------------------------------------------- ConnectionManager.__new__
\* The attributes __new__ sets on a new instance: _engines, _sessions,
\* _lock and _logger.
NumAttrs == 4

\* The class before its first construction: no instance, _instance_lock free,
\* no thread inside __new__, nothing returned to any thread.
NoGot == [id |-> None, attrs |-> 0]
NoManager ==
  [instance |-> None, objects |-> 0, attrs |-> 0, ilock |-> "",
   pc |-> [t \in Threads |-> "none"], got |-> [t \in Threads |-> NoGot]]

\* The manager after a construction that ran alone.
Made(c) ==
  IF c.instance # None THEN c
  ELSE [c EXCEPT !.instance = c.objects + 1, !.objects = @ + 1, !.attrs = NumAttrs]

NewStep(c) ==
  /\ cm' = c
  /\ UNCHANGED <<engines, built, lock, ge>>
  /\ UNCHANGED txVars

\* __new__, line 36: `if cls._instance is None:` read without the lock
NewCheck(t) ==
  /\ cm.pc[t] = "none"
  /\ NewStep([cm EXCEPT !.pc[t] = IF cm.instance = None THEN "lock" ELSE "return"])

\* line 37: `with cls._instance_lock:`
NewLock(t) ==
  /\ cm.pc[t] = "lock"
  /\ cm.ilock = ""
  /\ NewStep([cm EXCEPT !.pc[t] = "check2", !.ilock = t])

\* line 38: the second check, under the lock
NewCheck2(t) ==
  /\ cm.pc[t] = "check2"
  /\ NewStep(IF cm.instance = None THEN [cm EXCEPT !.pc[t] = "alloc"]
             ELSE [cm EXCEPT !.pc[t] = "return", !.ilock = ""])

\* line 39: `cls._instance = super().__new__(cls)`
NewAlloc(t) ==
  /\ cm.pc[t] = "alloc"
  /\ NewStep([cm EXCEPT !.pc[t] = "init", !.instance = cm.objects + 1,
                        !.objects = @ + 1, !.attrs = 0])

\* lines 40-43: one attribute of cls._instance is set; after the last one
\* the lock is released.
NewInit(t) ==
  /\ cm.pc[t] = "init"
  /\ NewStep(IF cm.attrs + 1 = NumAttrs
               THEN [cm EXCEPT !.attrs = @ + 1, !.pc[t] = "return", !.ilock = ""]
               ELSE [cm EXCEPT !.attrs = @ + 1])

\* line 44: `return cls._instance`; the caller holds the object with the
\* attributes it has at that moment.
NewReturn(t) ==
  /\ cm.pc[t] = "return"
  /\ NewStep([cm EXCEPT !.pc[t] = "none",
                        !.got[t] = [id |-> cm.instance, attrs |-> cm.attrs]])

\* ------------------------------------------------------------------- Init
NoCall == [thread |-> "", adapter |-> "", op |-> "none", result |-> "ok",
           closed |-> <<>>, native |-> <<>>, outcome |-> "", events |-> <<>>,
           family |-> "sql", via |-> "adapter", where |-> NoWhere,
           entity |-> <<>>, data |-> <<>>, order_by |-> <<>>, limit |-> <<>>,
           uql |-> <<>>, q |-> <<>>, names |-> <<>>, filter |-> <<>>, ret |-> <<>>,
           driver |-> "", dialect |-> "", instance |-> "", url |-> "",
   config |-> <<>>, rows |-> {}, on |-> <<>>]

Init ==
  /\ local = [a \in Adapters |-> [t \in Threads |-> NoHandle]]
  /\ conns = [c \in 1..PoolCapacity |-> NoConn]
  /\ committed = {}
  /\ gone = {}
  /\ tables = {}
  /\ nrows = 0
  /\ prepared = [a \in Adapters |-> {}]
  /\ landed = {}
  /\ discarded = {}
  /\ scope = [t \in Threads |-> NoScope]
  /\ last = NoCall
  /\ engines = [u \in Urls |-> None]
  /\ built = [u \in Urls |-> 0]
  /\ lock = ""
  /\ ge = [t \in Threads |-> NoGet]
  /\ cm = NoManager

\* The transaction manager of one adapter, used from two threads.
NextTx ==
  \/ \E t \in Threads, drv \in DrvBegin : Begin(t, "a1", drv)
  \/ \E t \in Threads, ok \in BOOLEAN : Commit(t, "a1", ok)
  \/ \E t \in Threads, ok \in BOOLEAN : Rollback(t, "a1", ok)
  \/ \E t \in Threads, drv \in DrvBegin : TxEnter(t, "a1", drv)
  \/ \E t \in Threads, outcome \in {"ok", "exc"}, okC \in BOOLEAN, okR \in BOOLEAN :
        TxExit(t, outcome, okC, okR)
  \/ \E t \in Threads : Find(t, "a1", TName, NoWhere)

SpecTx == Init /\ [][NextTx]_vars

\* Two adapter instances constructed for one connection string, used from
\* one thread.
NextAdapters ==
  \/ \E a \in Adapters, drv \in DrvBegin : Begin("t1", a, drv)
  \/ \E a \in Adapters, ok \in BOOLEAN : Commit("t1", a, ok)
  \/ \E a \in Adapters, ok \in BOOLEAN : Rollback("t1", a, ok)
  \/ \E a \in Adapters, drv \in DrvBegin : TxEnter("t1", a, drv)
  \/ \E outcome \in {"ok", "exc"}, okC \in BOOLEAN, okR \in BOOLEAN :
        TxExit("t1", outcome, okC, okR)

SpecAdapters == Init /\ [][NextAdapters]_vars

\* One adapter whose rows are created by a thread inside and outside
\* transactions and found by that thread and by another one.
NextRows ==
  \/ \E drv \in DrvBegin : Begin("t1", "a1", drv)
  \/ \E ok \in BOOLEAN : Commit("t1", "a1", ok)
  \/ \E ok \in BOOLEAN : Rollback("t1", "a1", ok)
  \/ \E drv \in DrvBegin : TxEnter("t1", "a1", drv)
  \/ \E outcome \in {"ok", "exc"}, okC \in BOOLEAN, okR \in BOOLEAN :
        TxExit("t1", outcome, okC, okR)
  \/ Create("t1", "a1", TName, << <<KName, IntVal(1)>> >>)
  \/ \E t \in Threads, w \in {NoWhere, MapWhere(<< <<KName, IntVal(2)>> >>)} :
        Find(t, "a1", TName, w)

SpecRows == Init /\ [][NextRows]_vars

\* Rows created and deleted outside transactions, and delete called on the
\* Facade and on the adapter of every backend family.
NextDelete ==
  \/ Create("t1", "a1", TName, << <<KName, IntVal(1)>> >>)
  \/ \E via \in {"facade", "adapter"}, family \in Families, w \in DeleteWheres :
        Delete("t1", "a1", via, family, TName, w)

SpecDelete == Init /\ [][NextDelete]_vars

\* Two threads asking the process-wide ConnectionManager for engines.
NextEngine ==
  \/ \E t \in Threads, u \in Urls : GeEnter(t, u)
  \/ \E t \in Threads : GeLookup(t)
  \/ \E t \in Threads, ok \in BOOLEAN : GeBuild(t, ok)
  \/ \E t \in Threads : GePublish(t)
  \/ \E t \in Threads, ok \in BOOLEAN : GeReturn(t, ok)

SpecEngine == Init /\ [][NextEngine]_vars

\* The Facade of every backend family: statements through uexecute and find
\* with ordering and limit.
NextUql ==
  \/ \E family \in Families, uql \in UqlTexts : UExecute("t1", "a1", family, uql)
  \/ \E via \in {"facade", "adapter"}, family \in Families, where \in FindWheres,
        order_by \in FindOrders, limit \in FindLimits :
       FindWith("t1", "a1", via, family, TName, where, order_by, limit, "one")

SpecUql == Init /\ [][NextUql]_vars


\* The rows created in the runs that exercise validation.
MaxCreated == 2

\* The inputs validation rejects, next to valid ones, given to one
\* relational adapter inside and outside a transaction, and statements given
\* to uexecute on a relational and on a graph Facade.
BadName == <<"1", "T">>
K1 == << <<KName, IntVal(1)>> >>
BadKey1 == << <<<<"1", "k">>, IntVal(1)>> >>
J1K1 == << <<<<"j">>, IntVal(1)>>, <<KName, IntVal(1)>> >>
K1J1 == << <<KName, IntVal(1)>>, <<<<"j">>, IntVal(1)>> >>

ValidEntities == {TName, BadName}
ValidPayloads == {<<>>, K1, BadKey1}
ValidRowLists == {<<>>, <<K1>>, <<K1, BadKey1>>, <<K1, <<>> >>, <<J1K1, K1J1>>}
ValidTexts ==
  {<<"C", "R", "E", "A", "T", "E", " ", "T", " ", "{", "k", ":", " ", "1", ",", " ", "1", "k", ":", " ", "2", "}">>, <<"F", "I", "N", "D", " ", "T", " ", "-", "-", " ", "x">>,
   <<"F", "I", "N", "D", " ", "T", ";", " ", "D", "R", "O", "P", " ", "T", "A", "B", "L", "E", " ", "T">>, <<"D", "R", "O", "P", " ", "T">>, <<"F", "I", "N", "D", " ", "T">>}

NextValid ==
  \/ Begin("t1", "a1", "ok")
  \/ Rollback("t1", "a1", TRUE)
  \/ \E entity \in ValidEntities, data \in ValidPayloads :
       nrows < MaxCreated /\ Create("t1", "a1", entity, data)
  \/ \E rows \in ValidRowLists :
       nrows < MaxCreated /\ CreateMany("t1", "a1", TName, rows)
  \/ \E where \in {NoWhere, MapWhere(BadKey1)}, order_by \in {<<>>, <<"1", "k">>},
        limit \in {<<>>, <<0>>} :
       FindWith("t1", "a1", "adapter", "sql", TName, where, order_by, limit, "one")
  \/ \E entity \in ValidEntities, where \in {MapWhere(K1), MapWhere(BadKey1)} :
       Delete("t1", "a1", "adapter", "sql", entity, where)
  \/ \E family \in {"sql", "graph"}, uql \in ValidTexts :
       UExecute("t1", "a1", family, uql)

SpecValid == Init /\ [][NextValid]_vars


\* One relational adapter given calls that differ only in their values.
K2 == << <<KName, IntVal(2)>> >>
CreateTexts == {<<"C", "R", "E", "A", "T", "E", " ", "T", " ", "{", "k", ":", " ", "1", "}">>, <<"C", "R", "E", "A", "T", "E", " ", "T", " ", "{", "k", ":", " ", "2", "}">>}

NextText ==
  \/ \E data \in {K1, K2} : nrows < MaxCreated /\ Create("t1", "a1", TName, data)
  \/ \E data \in {K1, K2} : nrows < MaxCreated /\ CreateMany("t1", "a1", TName, <<data>>)
  \/ \E data \in {K1, K2}, limit \in {<<>>, <<1>>, <<2>>} :
       FindWith("t1", "a1", "adapter", "sql", TName, MapWhere(data), KName, limit, "one")
  \/ \E data \in {K1, K2} : Delete("t1", "a1", "adapter", "sql", TName, MapWhere(data))
  \/ \E uql \in CreateTexts : nrows < MaxCreated /\ UExecute("t1", "a1", "sql", uql)

SpecText == Init /\ [][NextText]_vars


\* A relational Facade whose rows are created outside transactions and found
\* with where strings, on a driver that takes one statement per execute and
\* on one that takes several.
Drivers == {"one", "many"}
InjectWheres ==
  {StrWhere(<<"k", " ", "=", " ", "1">>), StrWhere(<<"k", " ", "=", " ", "1", ";", " ", "D", "R", "O", "P", " ", "T", "A", "B", "L", "E", " ", "T">>),
   StrWhere(<<"k", " ", "=", " ", "2", ";", " ", "D", "R", "O", "P", " ", "T", "A", "B", "L", "E", " ">> \o Quote(TName)), StrWhere(<<"k", " ", "=", " ", "1", ";", " ">>),
   StrWhere(<<";", " ", "D", "R", "O", "P", " ", "T", "A", "B", "L", "E", " ", "T">>)}

NextInject ==
  \/ \E data \in {K1, K2} : Create("t1", "a1", TName, data)
  \/ \E where \in InjectWheres, order_by \in {<<>>, KName}, drv \in Drivers :
       FindWith("t1", "a1", "facade", "sql", TName, where, order_by, <<>>, drv)

SpecInject == Init /\ [][NextInject]_vars


\* --------------------------------------------- configuration of the Facade
\* UDOM._SUPPORTED_DB_TYPES and the engine names of each family
SUPPORTED_DB_TYPES == {<<"s", "q", "l">>, <<"n", "o", "s", "q", "l">>, <<"g", "r", "a", "p", "h">>, <<"a", "i">>, <<"v", "e", "c", "t", "o", "r">>}
SQL_ENGINES == {<<"s", "q", "l", "i", "t", "e">>, <<"m", "y", "s", "q", "l">>, <<"p", "o", "s", "t", "g", "r", "e", "s">>, <<"p", "o", "s", "t", "g", "r", "e", "s", "q", "l">>}
NOSQL_ENGINES == {<<"m", "o", "n", "g", "o", "d", "b">>, <<"m", "o", "n", "g", "o">>, <<"r", "e", "d", "i", "s">>, <<"d", "y", "n", "a", "m", "o", "d", "b">>, <<"f", "i", "r", "e", "s", "t", "o", "r", "e">>,
                  <<"c", "a", "s", "s", "a", "n", "d", "r", "a">>}
GRAPH_ENGINES == {<<"n", "e", "o", "4", "j">>, <<"t", "i", "g", "e", "r", "g", "r", "a", "p", "h">>, <<"r", "d", "f">>}
VECTOR_ENGINES == {<<"q", "d", "r", "a", "n", "t">>, <<"p", "i", "n", "e", "c", "o", "n", "e">>, <<"w", "e", "a", "v", "i", "a", "t", "e">>, <<"m", "i", "l", "v", "u", "s">>, <<"c", "h", "r", "o", "m", "a">>,
                   <<"p", "g", "v", "e", "c", "t", "o", "r">>}
AI_ENGINES == {<<"o", "p", "e", "n", "a", "i">>, <<"a", "z", "u", "r", "e", "-", "o", "p", "e", "n", "a", "i">>, <<"b", "e", "d", "r", "o", "c", "k">>, <<"v", "e", "r", "t", "e", "x", "a", "i">>, <<"o", "l", "l", "a", "m", "a">>}

\* The engine names a family knows.
EnginesOf(db_type) ==
  CASE db_type = <<"s", "q", "l">> -> SQL_ENGINES
    [] db_type = <<"n", "o", "s", "q", "l">> -> NOSQL_ENGINES
    [] db_type = <<"g", "r", "a", "p", "h">> -> GRAPH_ENGINES
    [] db_type = <<"v", "e", "c", "t", "o", "r">> -> VECTOR_ENGINES
    [] db_type = <<"a", "i">> -> AI_ENGINES
    [] OTHER -> {}

\* UDOM._normalize_instance_alias
normalize_instance_alias(db_instance) ==
  IF db_instance = <<"p", "o", "s", "t", "g", "r", "e", "s", "q", "l">> THEN <<"p", "o", "s", "t", "g", "r", "e", "s">>
  ELSE IF db_instance = <<"m", "o", "n", "g", "o">> THEN <<"m", "o", "n", "g", "o", "d", "b">>
  ELSE db_instance

\* UDOM._default_instance
default_instance(db_type) ==
  CASE db_type = <<"s", "q", "l">> -> <<"s", "q", "l", "i", "t", "e">>
    [] db_type = <<"n", "o", "s", "q", "l">> -> <<"m", "o", "n", "g", "o", "d", "b">>
    [] db_type = <<"g", "r", "a", "p", "h">> -> <<"n", "e", "o", "4", "j">>
    [] db_type = <<"v", "e", "c", "t", "o", "r">> -> <<"q", "d", "r", "a", "n", "t">>
    [] db_type = <<"a", "i">> -> <<"o", "p", "e", "n", "a", "i">>

Config(db_type, db_instance) ==
  [result |-> "ok", db_type |-> db_type, db_instance |-> db_instance]
ConfigError == [result |-> "ValueError", db_type |-> <<>>, db_instance |-> <<>>]

\* UDOM._normalize_config, lines 62-73: db_type names an engine.
NormalizeEngine(engine) ==
  IF engine \in SQL_ENGINES
    THEN Config(<<"s", "q", "l">>, IF engine = <<"p", "o", "s", "t", "g", "r", "e", "s", "q", "l">> THEN <<"p", "o", "s", "t", "g", "r", "e", "s">> ELSE engine)
  ELSE IF engine \in NOSQL_ENGINES
    THEN Config(<<"n", "o", "s", "q", "l">>, IF engine = <<"m", "o", "n", "g", "o">> THEN <<"m", "o", "n", "g", "o", "d", "b">> ELSE engine)
  ELSE IF engine \in GRAPH_ENGINES THEN Config(<<"g", "r", "a", "p", "h">>, engine)
  ELSE IF engine \in VECTOR_ENGINES THEN Config(<<"v", "e", "c", "t", "o", "r">>, engine)
  ELSE IF engine \in AI_ENGINES THEN Config(<<"a", "i">>, engine)
  ELSE ConfigError

\* UDOM._normalize_config; None and "" are both the empty text.
normalize_config(db_type, db_instance) ==
  IF ToLower(db_type) \in SUPPORTED_DB_TYPES
    THEN Config(ToLower(db_type),
                normalize_instance_alias(
                  IF ToLower(db_instance) = <<>>
                    THEN default_instance(ToLower(db_type))
                    ELSE ToLower(db_instance)))
    ELSE NormalizeEngine(normalize_instance_alias(ToLower(db_type)))

\* The connection strings UDOM._default_url knows.
SqliteUrl == <<"s", "q", "l", "i", "t", "e", ":", "/", "/", "/", "t", "e", "s", "t", ".", "d", "b">>
MysqlUrl == <<"m", "y", "s", "q", "l", "+", "p", "y", "m", "y", "s", "q", "l", ":", "/", "/", "r", "o", "o", "t", ":", "p", "a", "s", "s", "w", "o", "r", "d", "@", "l", "o", "c", "a", "l", "h", "o", "s", "t", ":", "3", "3", "0", "6", "/", "u", "d", "o", "m">>
PostgresUrl == <<"p", "o", "s", "t", "g", "r", "e", "s", "q", "l", "+", "p", "s", "y", "c", "o", "p", "g", "2", ":", "/", "/", "p", "o", "s", "t", "g", "r", "e", "s", ":", "p", "a", "s", "s", "w", "o", "r", "d", "@", "l", "o", "c", "a", "l", "h", "o", "s", "t", ":", "5", "4", "3", "2", "/", "u", "d", "o", "m">>

\* UDOM._default_url; <<>> is None.
default_url(db_type, db_instance) ==
  IF db_type # <<"s", "q", "l">> THEN <<>>
  ELSE CASE db_instance = <<"s", "q", "l", "i", "t", "e">> -> SqliteUrl
         [] db_instance = <<"m", "y", "s", "q", "l">> -> MysqlUrl
         [] db_instance = <<"p", "o", "s", "t", "g", "r", "e", "s">> -> PostgresUrl
         [] OTHER -> <<>>

\* The class get_adapter instantiates for a relational instance, "" when
\* sql_map has none.
SqlAdapterClass(db_instance) ==
  CASE db_instance = <<"s", "q", "l", "i", "t", "e">> -> "SQLiteAdapter"
    [] db_instance = <<"m", "y", "s", "q", "l">> -> "MySQLAdapter"
    [] db_instance = <<"p", "o", "s", "t", "g", "r", "e", "s">> -> "PostgresAdapter"
    [] OTHER -> ""

\* The class get_adapter instantiates for the other families.
StubAdapterClass(db_type) ==
  CASE db_type = <<"n", "o", "s", "q", "l">> -> "NoSQLAdapter"
    [] db_type = <<"g", "r", "a", "p", "h">> -> "GraphAdapter"
    [] db_type = <<"a", "i">> -> "AIAdapter"
    [] db_type = <<"v", "e", "c", "t", "o", "r">> -> "VectorAdapter"

\* The cache key of a connection string of the model.
UrlKey(url) ==
  CASE url = SqliteUrl -> "u1"
    [] url = PostgresUrl -> "u2"

\* UDOM.__init__, line 48: `url or self._default_url(...)`
EffectiveUrl(cfg, url) ==
  IF url # <<>> THEN url ELSE default_url(cfg.db_type, cfg.db_instance)

\* The record of a construction or of a routing.
ConfigCall(op, result, db_type, db_instance, cls, key, config) ==
  [NoCall EXCEPT !.op = op, !.result = result, !.family = db_type,
                 !.instance = db_instance, !.dialect = cls, !.url = key,
                 !.config = config]

\* SQLAlchemyAdapter.__init__, lines 31-36: ConnectionManager() and its
\* get_engine(url) for the adapter under construction; ok is whether
\* create_engine succeeds.
ConstructSql(cfg, url, ok, config) ==
  /\ cm' = Made(cm)
  /\ IF engines[UrlKey(url)] # None
       THEN /\ last' = ConfigCall("construct", "ok", cfg.db_type, cfg.db_instance,
                                  SqlAdapterClass(cfg.db_instance), UrlKey(url), config)
            /\ UNCHANGED <<engines, built>>
     ELSE IF ok
       THEN /\ last' = ConfigCall("construct", "ok", cfg.db_type, cfg.db_instance,
                                  SqlAdapterClass(cfg.db_instance), UrlKey(url), config)
            /\ engines' = [engines EXCEPT ![UrlKey(url)] = NewEngine]
            /\ built' = [built EXCEPT ![UrlKey(url)] = @ + 1]
       ELSE /\ last' = ConfigCall("construct", "ConnectionError", cfg.db_type,
                                  cfg.db_instance, "", UrlKey(url), config)
            /\ UNCHANGED <<engines, built>>

\* UDOM.get_adapter for a normalised configuration
get_adapter(cfg, url, ok, config) ==
  IF cfg.db_type = <<"s", "q", "l">>
    THEN IF SqlAdapterClass(cfg.db_instance) = ""
           THEN /\ last' = ConfigCall("construct", "ValueError", cfg.db_type,
                                      cfg.db_instance, "", "", config)
                /\ UNCHANGED <<engines, built, cm>>
           ELSE ConstructSql(cfg, url, ok, config)
    ELSE /\ last' = ConfigCall("construct", "ok", cfg.db_type, cfg.db_instance,
                               StubAdapterClass(cfg.db_type), "", config)
         /\ UNCHANGED <<engines, built, cm>>

\* UDOM(db_type, db_instance, url)
Construct(db_type, db_instance, url, ok) ==
  /\ lock = ""
  /\ IF normalize_config(db_type, db_instance).result # "ok"
       THEN /\ last' = ConfigCall("construct", "ValueError", <<>>, <<>>, "", "",
                                  <<db_type, db_instance, url>>)
            /\ UNCHANGED <<engines, built, cm>>
       ELSE get_adapter(normalize_config(db_type, db_instance),
                        EffectiveUrl(normalize_config(db_type, db_instance), url),
                        ok, <<db_type, db_instance, url>>)
  /\ UNCHANGED <<lock, ge>>
  /\ UNCHANGED <<local, conns, committed, gone, tables, nrows, prepared, landed,
                 discarded, scope>>

\* urlparse(url).scheme: the text before the first ":" when it starts with a
\* letter and holds only scheme characters, lowercased; "" otherwise.
SchemeChars == Lower \cup Upper \cup Digits \cup {"+", "-", "."}
UrlScheme(url) ==
  IF /\ IndexOf(url, ":") > 1
     /\ url[1] \in Lower \cup Upper
     /\ \A i \in 1..(IndexOf(url, ":") - 1) : url[i] \in SchemeChars
    THEN ToLower(SubSeq(url, 1, IndexOf(url, ":") - 1))
    ELSE <<>>

\* AdapterRouter.infer_sql_instance_from_url; <<>> is None.
infer_sql_instance_from_url(url) ==
  IF url = <<>> THEN <<>>
  ELSE IF Split(UrlScheme(url), "+")[1] = <<"p", "o", "s", "t", "g", "r", "e", "s", "q", "l">> THEN <<"p", "o", "s", "t", "g", "r", "e", "s">>
  ELSE Split(UrlScheme(url), "+")[1]

\* AdapterRouter._sql_map, "" when the name is not a key
RouterAdapterClass(name) ==
  IF name = <<"p", "o", "s", "t", "g", "r", "e", "s", "q", "l">> THEN "PostgresAdapter" ELSE SqlAdapterClass(name)

\* route_sql_adapter, lines 36-38: the resolved instance name
Resolved(db_instance, url) ==
  IF Strip(ToLower(db_instance)) # <<>> THEN Strip(ToLower(db_instance))
  ELSE IF infer_sql_instance_from_url(url) # <<>>
    THEN infer_sql_instance_from_url(url)
  ELSE <<"s", "q", "l", "i", "t", "e">>

\* AdapterRouter.route_sql_adapter(db_instance, url)
Route(db_instance, url) ==
  /\ last' = IF RouterAdapterClass(Resolved(db_instance, url)) = ""
               THEN ConfigCall("route", "ConnectionError", <<"s", "q", "l">>, <<>>, "", "",
                               <<<<"s", "q", "l">>, db_instance, url>>)
               ELSE ConfigCall("route", "ok", <<"s", "q", "l">>, Resolved(db_instance, url),
                               RouterAdapterClass(Resolved(db_instance, url)), "",
                               <<<<"s", "q", "l">>, db_instance, url>>)
  /\ UNCHANGED engVars
  /\ UNCHANGED <<local, conns, committed, gone, tables, nrows, prepared, landed,
                 discarded, scope>>

\* Construction of the Facade and routing, over families, instance names and
\* connection strings that are known, aliased, wrongly cased and unknown.
ConfigDbTypes == {<<"s", "q", "l">>, <<"n", "o", "s", "q", "l">>, <<"g", "r", "a", "p", "h">>, <<"v", "e", "c", "t", "o", "r">>, <<"a", "i">>, <<"P", "o", "s", "t", "g", "r", "e", "S", "Q", "L">>,
                  <<"b", "o", "g", "u", "s">>}
ConfigInstances == {<<>>, <<"s", "q", "l", "i", "t", "e">>, <<"p", "o", "s", "t", "g", "r", "e", "s", "q", "l">>, <<"b", "o", "g", "u", "s">>}
ConfigUrls == {<<>>, PostgresUrl}
RouteInstances == {<<>>, <<"m", "y", "s", "q", "l">>, <<" ", "P", "o", "s", "t", "g", "r", "e", "S", "Q", "L", " ">>, <<"b", "o", "g", "u", "s">>}
RouteUrls == {<<>>, PostgresUrl, SqliteUrl, <<"o", "r", "a", "c", "l", "e", ":", "/", "/", "h">>, <<"t", "e", "s", "t", ".", "d", "b">>}

NextConfig ==
  \/ \E db_type \in ConfigDbTypes, db_instance \in ConfigInstances,
        url \in ConfigUrls, ok \in BOOLEAN :
       Construct(db_type, db_instance, url, ok)
  \/ \E db_instance \in RouteInstances, url \in RouteUrls : Route(db_instance, url)

SpecConfig == Init /\ [][NextConfig]_vars


\* One relational adapter whose rows are created, found and deleted with
\* where mappings, outside transactions and inside one; a field holds an
\* integer or None.
KNone == << <<KName, NoneVal>> >>
RoundPayloads == {K1, K2, KNone}

NextRound ==
  \/ Begin("t1", "a1", "ok")
  \/ Commit("t1", "a1", TRUE)
  \/ \E data \in RoundPayloads : nrows < MaxCreated /\ Create("t1", "a1", TName, data)
  \/ \E t \in Threads, data \in {K1, K2, KNone} : Find(t, "a1", TName, MapWhere(data))
  \/ \E t \in Threads, data \in {K1, K2, KNone} :
       Delete(t, "a1", "adapter", "sql", TName, MapWhere(data))

SpecRound == Init /\ [][NextRound]_vars


\* ------------------------------------------------- identifier validators
Accepted(v) == [r |-> "ok", v |-> v]
Rejected == [r |-> "QueryError", v |-> <<>>]

\* SQLAlchemyAdapter._validate_identifier
validate_identifier(name) == IF IsIdentifier(name) THEN Accepted(name) ELSE Rejected

\* SchemaValidator.validate_entity
validate_entity(entity) ==
  IF IsIdentifier(Strip(entity)) THEN Accepted(Strip(entity)) ELSE Rejected

\* UDOM._normalize_entity
normalize_entity(entity) ==
  IF Strip(entity) = <<>> THEN Rejected ELSE Accepted(Strip(entity))

Validators == {"_validate_identifier", "validate_entity", "_normalize_entity"}

\* The validator named v applied to a name.
ValidatorResult(v, name) ==
  CASE v = "_validate_identifier" -> validate_identifier(name)
    [] v = "validate_entity" -> validate_entity(name)
    [] v = "_normalize_entity" -> normalize_entity(name)

\* One call of an identifier validator.
ValidateName(v, name) ==
  /\ last' = [NoCall EXCEPT !.op = "validate", !.via = v, !.entity = name,
                            !.result = ValidatorResult(v, name).r,
                            !.ret = ValidatorResult(v, name).v]
  /\ UNCHANGED engVars
  /\ UNCHANGED <<local, conns, committed, gone, tables, nrows, prepared, landed,
                 discarded, scope>>

\* The names given to the validators: every text of up to MaxNameLen
\* characters out of a letter, a digit, the underscore, a blank and a symbol.
MaxNameLen == 3
NameChars == {"a", "1", "_", " ", "-"}
Names == UNION {[1..n -> NameChars] : n \in 0..MaxNameLen}

NextIdent == \E v \in Validators, name \in Names : ValidateName(v, name)

SpecIdent == Init /\ [][NextIdent]_vars


\* ------------------------------------------------------- literal coercion
\* A coerced value: its Python type and, for a boolean, whether it is True,
\* for an integer its number, for a float and a string its text.
Typed(t, v) == [t |-> t, v |-> v]

\* UQLParser._cast_value
ParserCastValue(val) ==
  IF ToLower(val) = <<"t", "r", "u", "e">> THEN Typed("bool", TRUE)
  ELSE IF ToLower(val) = <<"f", "a", "l", "s", "e">> THEN Typed("bool", FALSE)
  ELSE IF IsDigits(val) THEN Typed("int", StrInt(val))
  ELSE Typed("str", StripChar(StripChar(val, "\""), "'"))

\* The value NoSQLAdapter._cast_value returns, read off the document.
NoSqlTyped(rendered, val) ==
  IF rendered = <<"True">> THEN Typed("bool", TRUE)
  ELSE IF rendered = <<"False">> THEN Typed("bool", FALSE)
  ELSE IF rendered[1] = "float(" THEN Typed("float", val)
  ELSE IF rendered[1] = "'" THEN Typed("str", SubSeq(rendered, 2, Len(rendered) - 1))
  ELSE Typed("int", StrInt(rendered))

\* The value GraphAdapter writes into the Cypher text, read off the text:
\* true / false, a number or a double-quoted string.
GraphTyped(rendered) ==
  IF rendered = <<"t", "r", "u", "e">> THEN Typed("bool", TRUE)
  ELSE IF rendered = <<"f", "a", "l", "s", "e">> THEN Typed("bool", FALSE)
  ELSE IF rendered[1] = "\"" THEN Typed("str", SubSeq(rendered, 2, Len(rendered) - 1))
  ELSE Typed("int", StrInt(rendered))

\* One literal given to the three generators; the call keeps the literal and
\* the values of the parser, the document and the graph generator.
Coerce(val) ==
  /\ last' = [NoCall EXCEPT !.op = "coerce", !.uql = val,
                            !.ret = <<ParserCastValue(val),
                                      NoSqlTyped(CastValue(val), val),
                                      GraphTyped(CypherValue(val))>>]
  /\ UNCHANGED engVars
  /\ UNCHANGED <<local, conns, committed, gone, tables, nrows, prepared, landed,
                 discarded, scope>>

\* The literals: every text of up to MaxLiteralLen characters out of a
\* digit, the dot, the two quotes and a letter, and the boolean words.
MaxLiteralLen == 3
LiteralChars == {"1", ".", "'", "\"", "a"}
Literals ==
  UNION {[1..n -> LiteralChars] : n \in 0..MaxLiteralLen}
    \cup {<<"t", "r", "u", "e">>, <<"T", "r", "u", "e">>, <<"F", "A", "L", "S", "E">>, <<"f", "a", "l", "s", "e">>, <<"'", "t", "r", "u", "e", "'">>, <<"1", "2", ".", "5", "0">>}

NextCoerce == \E val \in Literals : Coerce(val)

SpecCoerce == Init /\ [][NextCoerce]_vars


\* ------------------------------------------- FIND statements for the graph
\* A comparison clause: a field, an operator (">", "<", "=" or "HAS", whose
\* field is the relationship) and a value literal.
Clause(field, op, value) == [field |-> field, op |-> op, value |-> value]

\* The UQL text of a clause.
ClauseText(c) ==
  IF c.op = "HAS" THEN KwHAS \o c.field
  ELSE c.field \o <<" ", c.op, " ">> \o c.value

\* The UQL text FIND <entity> WHERE c1 AND ... AND cn.
FindStatement(entity, clauses) ==
  KwFIND \o <<" ">> \o entity \o <<" ">> \o KwWHERE \o <<" ">>
    \o Join([i \in 1..Len(clauses) |-> ClauseText(clauses[i])],
            <<" ">> \o KwAND \o <<" ">>)

MaxClauses == 3
FindClauses ==
  {Clause(<<"a", "g", "e">>, ">", <<"2", "5">>), Clause(<<"k">>, "<", <<"1">>),
   Clause(<<"a", "c", "t", "i", "v", "e">>, "=", <<"T", "R", "U", "E">>), Clause(<<"n", "a", "m", "e">>, "=", <<"'", "a", "'">>),
   Clause(<<"f", "r", "i", "e", "n", "d">>, "HAS", <<>>)}
FindEntities == {<<"U", "s", "e", "r">>}
ClauseLists == UNION {[1..n -> FindClauses] : n \in 1..MaxClauses}
GraphFindTexts ==
  {FindStatement(entity, clauses) : entity \in FindEntities, clauses \in ClauseLists}

NextGraphFind == \E uql \in GraphFindTexts : UExecute("t1", "a1", "graph", uql)

SpecGraphFind == Init /\ [][NextGraphFind]_vars


\* ----------------------------------- CREATE statements for the document store
\* The UQL text CREATE <entity> {f1: v1, ..., fn: vn} of a list of
\* <<field, literal>> pairs.
CreateStatement(entity, fields) ==
  KwCREATE \o <<" ">> \o entity \o <<" ", "{">>
    \o Join([i \in 1..Len(fields) |-> fields[i][1] \o <<":", " ">> \o fields[i][2]], <<",", " ">>)
    \o <<"}">>

MaxFields == 3
CreateFields ==
  {<<<<"n", "a", "m", "e">>, <<"\"", "V", "e", "e", "r", "e", "s", "h", "\"">>>>, <<<<"a", "g", "e">>, <<"2", "3">>>>, <<<<"o", "k">>, <<"t", "r", "u", "e">>>>,
   <<<<"n">>, <<"1", ".", "5">>>>, <<<<"t">>, <<"'", "1", "2", ":", "3", "0", "'">>>>, <<<<"t", "a", "g">>, <<"'", "a", ",", "b", "'">>>>}

\* The lists of up to MaxFields fields, no field named twice.
FieldLists ==
  {fields \in UNION {[1..n -> CreateFields] : n \in 1..MaxFields} :
     \A i, j \in 1..Len(fields) : i # j => fields[i][1] # fields[j][1]}

DocCreateTexts == {CreateStatement(<<"U", "s", "e", "r">>, fields) : fields \in FieldLists}

NextDocCreate == \E uql \in DocCreateTexts : UExecute("t1", "a1", "nosql", uql)

SpecDocCreate == Init /\ [][NextDocCreate]_vars


\* ------------------------------------ create on a non-relational Facade
\* UDOM.create on the Facade of a non-relational family: the payload is
\* written as a CREATE statement and given to uexecute.
UdomCreate(S, a, t, family, entity, data) ==
  IF normalize_entity(entity).r # "ok" THEN UqlFailed(S, "QueryError")
  ELSE uexecute(S, a, t, family,
                CreateStatement(normalize_entity(entity).v,
                                [i \in 1..Len(data) |->
                                   <<data[i][1], ToUqlValue(data[i][2])>>]))

FacadeCreate(t, a, family, entity, data) ==
  /\ CanOp(t)
  /\ LET X == UdomCreate(Store, a, t, family, entity, data)
     IN /\ SetStore(X.s)
        /\ last' = [UqlCall(t, a, "create", family, X)
                      EXCEPT !.via = "facade", !.entity = entity, !.data = data]
  /\ scope' = AfterOp(t)
  /\ UNCHANGED <<landed, discarded>>
  /\ UNCHANGED engVars

\* The values of the payloads: a boolean, integers of both signs, a float,
\* and strings: plain, with a comma, a colon, a quote, and the text of a
\* number and of a boolean.
BoolVal(b) == [t |-> "bool", v |-> b]
FloatVal(text) == [t |-> "float", v |-> text]
StrVal(s) == [t |-> "str", v |-> s]

PayloadValues ==
  {BoolVal(TRUE), IntVal(5), IntVal(0 - 5), FloatVal(<<"1", ".", "5">>),
   StrVal(<<"a">>), StrVal(<<"a", ",", "b">>), StrVal(<<"a", ":", "b">>), StrVal(<<"i", "t", "'", "s">>),
   StrVal(<<"5">>), StrVal(<<"t", "r", "u", "e">>)}

SecondValues == {BoolVal(FALSE), IntVal(7), FloatVal(<<"2", ".", "5">>), StrVal(<<"b">>), StrVal(<<"7">>)}

\* The payloads: one field, or two fields.
Payloads ==
  {<< <<KName, v>> >> : v \in PayloadValues}
    \cup {<< <<KName, v>>, <<<<"n">>, w>> >> : v \in PayloadValues, w \in SecondValues}

NextFacadeCreate ==
  \E family \in {"nosql", "graph"}, data \in Payloads :
     FacadeCreate("t1", "a1", family, <<"U", "s", "e", "r">>, data)

SpecFacadeCreate == Init /\ [][NextFacadeCreate]_vars


\* Two threads constructing the ConnectionManager, the first time and again.
NextNew ==
  \/ \E t \in Threads : NewCheck(t)
  \/ \E t \in Threads : NewLock(t)
  \/ \E t \in Threads : NewCheck2(t)
  \/ \E t \in Threads : NewAlloc(t)
  \/ \E t \in Threads : NewInit(t)
  \/ \E t \in Threads : NewReturn(t)

SpecNew == Init /\ [][NextNew]_vars


\* ------------------------------------------------------------- properties
Count(seq, x) == Cardinality({i \in 1..Len(seq) : seq[i] = x})

ActiveOf(a, t) ==
  {c \in 1..PoolCapacity : conns[c].tx = "active" /\ conns[c].owner = <<a, t>>}

\* C1: a commit() or rollback() made by a context that holds a transaction
\* clears the context's handle and closes its connection exactly once,
\* returning it to the pool, whether tx.commit()/tx.rollback() returned or
\* raised; a begin() that follows in that context is accepted.
C1_EndReleasesOnce ==
  [][\A a \in Adapters, t \in Threads :
       (/\ local[a][t].connection # None
        /\ last'.op \in {"commit", "rollback"}
        /\ last'.adapter = a /\ last'.thread = t)
       => /\ last'.result \in {"ok", "TransactionError_commit",
                               "TransactionError_rollback"}
          /\ local'[a][t] = NoHandle
          /\ last'.closed = <<local[a][t].connection>>
          /\ conns'[local[a][t].connection] = NoConn
          /\ begin(Store', a, t, "ok").r = "ok"]_vars

C1_Witness ==
  /\ last.op = "commit"
  /\ last.result = "TransactionError_commit"
  /\ Len(last.closed) = 1
  /\ local[last.adapter][last.thread] = NoHandle

\* C2: begin() in a context that already holds a transaction raises
\* TransactionError, checks out no connection and leaves every handle and
\* every connection as it was.
C2_SecondBeginFails ==
  [][\A a \in Adapters, t \in Threads :
       (/\ local[a][t].connection # None
        /\ last'.op = "begin"
        /\ last'.adapter = a /\ last'.thread = t)
       => /\ last'.result = "TransactionError_active"
          /\ local' = local
          /\ conns' = conns
          /\ last'.closed = <<>>]_vars

C2_Witness ==
  /\ last.op = "begin"
  /\ last.result = "TransactionError_active"
  /\ local[last.adapter][last.thread].transaction # None
  /\ conns[local[last.adapter][last.thread].connection].tx = "active"

\* C3: commit() or rollback() in a context that holds no transaction raises
\* TransactionError and leaves the context without one; no connection is
\* checked out, closed or released by the call.
C3_EndWhileIdleFails ==
  [][\A a \in Adapters, t \in Threads :
       (/\ local[a][t].connection = None
        /\ last'.op \in {"commit", "rollback"}
        /\ last'.adapter = a /\ last'.thread = t)
       => /\ last'.result = "TransactionError_none"
          /\ local' = local
          /\ local'[a][t] = NoHandle
          /\ conns' = conns
          /\ last'.closed = <<>>]_vars

C3_Witness ==
  /\ last.op = "rollback"
  /\ last.result = "TransactionError_none"
  /\ local[last.adapter][last.thread] = NoHandle

\* C4: when the body of a scoped block raises, the helper calls rollback
\* exactly once and commit never, the context holds no transaction when the
\* block is left, and the caller sees the failure its own operations raised.
C4_OriginalFailureSeen ==
  (last.op = "transaction" /\ last.outcome = "exc")
  => /\ Count(last.events, "rollback") = 1
     /\ Count(last.events, "commit") = 0
     /\ local[last.adapter][last.thread] = NoHandle
     /\ last.result = "original"

\* C5: when the body of a scoped block returns, the events are begin, the
\* caller's operations, commit: commit is called exactly once, after the last
\* operation; rollback is not called when that commit returned; the context
\* holds no transaction when the block is left.
C5_CommitOnNormalExit ==
  (last.op = "transaction" /\ last.outcome = "ok")
  => LET ev == last.events
         n == Len(ev)
     IN /\ n >= 2
        /\ ev[1] = "begin"
        /\ Count(ev, "commit") = 1
        /\ \E i \in 2..n :
              /\ ev[i] = "commit"
              /\ \A j \in 2..(i - 1) : ev[j] = "op"
              /\ \A j \in (i + 1)..n : ev[j] = "rollback"
              /\ i >= n - 1
        /\ last.result = "none" => ev[n] = "commit"
        /\ local[last.adapter][last.thread] = NoHandle

C5_Witness ==
  /\ last.op = "transaction"
  /\ last.outcome = "ok"
  /\ last.result = "none"
  /\ last.events = <<"begin", "op", "commit">>

C8_HandleIsThreadLocal ==
  [][\A t \in Threads :
       last'.thread = t
       => /\ \A a \in Adapters, u \in Threads \ {t} : local'[a][u] = local[a][u]
          /\ \A c \in 1..PoolCapacity :
                (conns[c].state = "open" /\ conns[c].owner[2] # t)
                => conns'[c] = conns[c]
          /\ (last'.op = "begin" /\ local[last'.adapter][t].connection = None)
             => last'.result # "TransactionError_active"]_vars

C8_Witness ==
  /\ local["a1"]["t1"].transaction # None
  /\ local["a1"]["t2"].transaction # None
  /\ local["a1"]["t1"].connection # local["a1"]["t2"].connection
  /\ last.op = "begin"
  /\ last.result = "ok"

\* C9: however the get_engine calls of the threads interleave, create_engine
\* returns at most one engine for a url, every call that returns gives back
\* the engine cached for its url, and a cached engine is never replaced or
\* removed.
C9_OneEnginePerUrl ==
  [][\A u \in Urls :
       /\ built'[u] <= 1
       /\ engines[u] # None => engines'[u] = engines[u]
       /\ \A t \in Threads :
            (ge'[t].result = "ok" /\ ge'[t].url = u)
            => (ge'[t].ret # None /\ ge'[t].ret = engines'[u])]_vars

C9_Witness ==
  /\ ge["t1"].result = "ok" /\ ge["t2"].result = "ok"
  /\ ge["t1"].url = "u1" /\ ge["t2"].url = "u1"
  /\ ge["t1"].ret = ge["t2"].ret
  /\ ge["t1"].ret # None
  /\ built["u1"] = 1

\* An absent or empty condition: None, an empty mapping, an empty or
\* whitespace-only string.
EmptyWhere(where) ==
  \/ where.kind = "none"
  \/ where.kind = "map" /\ where.items = <<>>
  \/ where.kind = "str" /\ Strip(where.text) = <<>>

\* C10: a delete with an absent or empty condition fails with an error and
\* issues no native query, on the Facade and on the adapter of every family.
C10_EmptyDeleteRejected ==
  (last.op = "delete" /\ EmptyWhere(last.where))
  => (last.result # "ok" /\ last.native = <<>>)

IsDeleteUql(uql) == StartsWith(ToUpper(Strip(uql)), KwDELETE)

\* The families whose adapter compiles a filter from the condition.
Compiling == {"sql", "nosql", "graph"}

\* A DELETE statement without a condition, or whose condition compiled to
\* no filter.
UnfilteredDelete(c) ==
  /\ c.op = "uexecute"
  /\ IsDeleteUql(c.uql)
  /\ \/ Strip(ExtractMatch(Strip(c.uql)).condition) = <<>>
     \/ (c.family \in Compiling /\ c.filter \in {<<>>, EmptyDict})

\* C11: a UQL DELETE whose condition is absent, empty or compiles to no
\* filter is rejected with an error; no native delete is compiled or run.
C11_NoUnconditionalDelete ==
  UnfilteredDelete(last) => (last.result # "ok" /\ last.q = <<>> /\ last.native = <<>>)

\* The graph Facade has compiled and handed out a delete of every node of
\* the label.
C11_Witness ==
  /\ UnfilteredDelete(last)
  /\ last.family = "graph"
  /\ last.result = "ok"
  /\ last.q = <<"M", "A", "T", "C", "H", " ", "(", "n", ":", "T", ")", " ", " ", "D", "E", "L", "E", "T", "E", " ", "n", ";">>

\* The calls validation rejects: an entity or a field name that is not an
\* identifier, an empty payload, no rows or rows of differing fields, a find
\* with an invalid order_by or limit, a statement the UQL validator refuses
\* or a CREATE statement with a field name that is not an identifier.
BadCreateUql(uql) ==
  /\ StartsWith(ToUpper(Strip(uql)), KwCREATE \o <<" ">>)
  /\ SqlCreateMatch(Strip(uql)).ok
  /\ \E i \in 1..Len(CreatePairs(SqlCreateMatch(Strip(uql)).body)) :
        LET pair == CreatePairs(SqlCreateMatch(Strip(uql)).body)[i]
        IN IndexOf(pair, ":") = 0 \/ ~IsIdentifier(CutKey(pair, ":"))

RejectedByValidation(c) ==
  \/ /\ c.op \in {"create", "create_many", "find", "delete"}
     /\ c.family = "sql"
     /\ ~IsIdentifier(c.entity)
  \/ c.op = "create" /\ ~ValidData(c.data)
  \/ c.op = "create_many" /\ ~ValidRows(c.data)
  \/ /\ c.op \in {"find", "delete"}
     /\ c.family = "sql"
     /\ ~WhereKeysOk(c.where)
  \/ /\ c.op = "find"
     /\ c.family = "sql"
     /\ \/ (c.order_by # <<>> /\ ~OrderByOk(Strip(c.order_by)))
        \/ (c.limit # <<>> /\ c.limit[1] <= 0)
  \/ c.op = "uexecute" /\ Validate(c.uql) # "ok"
  \/ c.op = "uexecute" /\ c.family = "sql" /\ BadCreateUql(c.uql)

\* C12: a call rejected by validation raises QueryError without issuing a
\* native statement (table creation included), and the tables, the rows,
\* the prepared-statement cache and the transaction state of every context
\* are what they were before the call.
C12_RejectedBeforeAnyStatement ==
  [][RejectedByValidation(last')
       => /\ last'.result = "QueryError"
          /\ last'.native = <<>>
          /\ UNCHANGED <<local, conns, committed, gone, tables, nrows, prepared>>]_vars

\* create_many was given rows of differing field order inside a transaction,
\* after an INSERT text had been cached, and was rejected.
C12_Witness ==
  /\ last.op = "create_many"
  /\ last.data = <<J1K1, K1J1>>
  /\ last.result = "QueryError"
  /\ local["a1"]["t1"].transaction # None
  /\ prepared["a1"] # {}
  /\ tables = {TName}

\* C13: every entity name and field name written into a query text generated
\* for a relational or a graph backend, the ORDER BY field included, is an
\* identifier.
C13_NamesAreIdentifiers ==
  (last.family \in {"sql", "graph"} /\ (last.q # <<>> \/ last.native # <<>>))
  => \A i \in 1..Len(last.names) : IsIdentifier(last.names[i])

\* The graph adapter has written a label that starts with a digit into its
\* query.
C13_Witness ==
  /\ last.op = "uexecute"
  /\ last.family = "graph"
  /\ last.uql = <<"F", "I", "N", "D", " ", "1", "T">>
  /\ last.result = "ok"
  /\ last.q = <<"M", "A", "T", "C", "H", " ", "(", "n", ":", "1", "T", ")", " ", " ", "R", "E", "T", "U", "R", "N", " ", "n", ";">>
  /\ last.names = <<<<"1", "T">>>>

\* The statement a call generated to carry its values: the INSERT of create
\* and create_many, the SELECT of find, the DELETE of delete, the text
\* convert_uql compiled.
TextOf(c) == IF c.op = "uexecute" THEN c.q ELSE c.native[Len(c.native)]

\* What is left of a call when its values are taken away.
FieldsOf(c) ==
  CASE c.op = "create" -> Keys(c.data)
    [] c.op = "create_many" -> [i \in 1..Len(c.data) |-> Keys(c.data[i])]
    [] c.op = "uexecute" -> PairKeys(CreatePairs(SqlCreateMatch(Strip(c.uql)).body))
    [] OTHER -> Keys(c.where.items)

ShapeOf(c) ==
  [op |-> c.op, entity |-> IF c.op = "uexecute" THEN SqlCreateMatch(Strip(c.uql)).name
                           ELSE c.entity,
   fields |-> FieldsOf(c), where |-> c.where.kind, order_by |-> c.order_by,
   limit |-> c.limit # <<>>]

\* A relational call that generated a statement and whose where, if any, is
\* not a free-form string.
GeneratedSql(c) ==
  /\ c.op \in {"create", "create_many", "find", "delete", "uexecute"}
  /\ c.family = "sql"
  /\ c.native # <<>>
  /\ c.where.kind # "str"
  /\ c.op = "uexecute" => SqlCreateMatch(Strip(c.uql)).ok

\* C14: two relational calls that differ only in their values generate the
\* same SQL text.
C14_TextIndependentOfValues ==
  [][(GeneratedSql(last) /\ GeneratedSql(last') /\ ShapeOf(last) = ShapeOf(last'))
       => TextOf(last') = TextOf(last)]_vars

\* CREATE T {k: 2} was compiled: its value stands in the text.
C14_Witness ==
  /\ GeneratedSql(last)
  /\ last.op = "uexecute"
  /\ last.uql = <<"C", "R", "E", "A", "T", "E", " ", "T", " ", "{", "k", ":", " ", "2", "}">>
  /\ last.q = <<"INSERT INTO ", "\"", "T", "\"", " (", "\"", "k", "\"", ") VALUES (", "2", ")">>

\* C15: a relational find whose where string holds a semicolon and a second
\* statement raises QueryError, and the tables and their rows are what they
\* were before the call.
C15_InjectionRejected ==
  [][(last'.op = "find" /\ last'.family = "sql" /\ IsScript(last'.where))
       => (last'.result = "QueryError" /\ UNCHANGED <<tables, committed>>)]_vars

\* The find returned without error and the table is gone with its rows.
C15_Witness ==
  /\ last.op = "find"
  /\ last.family = "sql"
  /\ last.where = StrWhere(<<"k", " ", "=", " ", "1", ";", " ", "D", "R", "O", "P", " ", "T", "A", "B", "L", "E", " ", "T">>)
  /\ last.result = "ok"
  /\ tables = {}
  /\ committed = {}
  /\ gone # {}

\* A find that asks for an ordering or a limit: through the arguments of
\* find, or through a FIND statement whose text holds ORDER BY or LIMIT.
FindText(c) == c.op = "uexecute" /\ StartsWith(ToUpper(Strip(c.uql)), KwFIND \o <<" ">>)

AsksOrderOrLimit(c) ==
  \/ c.op = "find" /\ (c.order_by # <<>> \/ c.limit # <<>>)
  \/ /\ FindText(c)
     /\ Validate(c.uql) = "ok"
     /\ SqlFindMatch(Strip(c.uql)).ok
     /\ \/ SqlFindMatch(Strip(c.uql)).order_by # <<>>
        \/ SqlFindMatch(Strip(c.uql)).limit # <<>>

\* C16: on a non-relational backend a find that asks for an ordering or a
\* limit fails with an error, through find and through a UQL FIND.
C16_OrderLimitRejected ==
  (last.family # "sql" /\ AsksOrderOrLimit(last)) => last.result # "ok"

\* find(order_by="k") on the graph Facade returned the query of a plain
\* find: the ordering was dropped.
C16_Witness ==
  /\ last.op = "find"
  /\ last.via = "facade"
  /\ last.family = "graph"
  /\ last.order_by = KName
  /\ last.limit = <<>>
  /\ last.where = NoWhere
  /\ last.result = "ok"
  /\ last.q = <<"M", "A", "T", "C", "H", " ", "(", "n", ":", "T", ")", " ", " ", "R", "E", "T", "U", "R", "N", " ", "n", ";">>

\* C17: a call that returned normally did not return an error mapping: a
\* failure reaches the caller of the Facade as a raised error.
C17_FailuresAreRaised == last.result = "ok" => ~IsErrorMapping(last.ret)

\* uexecute of an UPDATE statement on the document Facade returned a mapping
\* with the key "error".
C17_Witness ==
  /\ last.op = "uexecute"
  /\ last.family = "nosql"
  /\ last.uql = <<"U", "P", "D", "A", "T", "E", " ", "T", " ", "S", "E", "T", " ", "k", " ", "=", " ", "1">>
  /\ last.result = "ok"
  /\ last.q = ErrorMapping("Unsupported or invalid UQL syntax")
  /\ last.native = <<>>
  /\ IsErrorMapping(last.ret)

IsCreateTable(stmt) == stmt # <<>> /\ stmt[1] = "CREATE TABLE IF NOT EXISTS "

\* create(entity, data) was called before on adapter a with these columns:
\* the table exists and the INSERT text is in the cache.
CreatedBefore(a, entity, data) ==
  /\ entity \in tables
  /\ \E p \in prepared[a] : p.key = InsertKey(entity, Keys(data))

\* C18: a create that repeats an earlier one on the same adapter (same
\* entity, same ordered columns) uses the INSERT text of the cache and
\* issues no table-creation statement.
C18_SecondCreateReusesAll ==
  [][(/\ last'.op = "create"
      /\ last'.result = "ok"
      /\ CreatedBefore(last'.adapter, last'.entity, last'.data))
       => /\ \E p \in prepared[last'.adapter] :
               /\ p.key = InsertKey(last'.entity, Keys(last'.data))
               /\ last'.native[Len(last'.native)] = p.sql
          /\ \A i \in 1..Len(last'.native) : ~IsCreateTable(last'.native[i])]_vars

\* The second create has issued CREATE TABLE IF NOT EXISTS again, followed by
\* the cached INSERT.
C18_Witness ==
  /\ last.op = "create"
  /\ last.result = "ok"
  /\ nrows = 2
  /\ Cardinality(prepared["a1"]) = 1
  /\ Len(last.native) = 2
  /\ IsCreateTable(last.native[1])
  /\ last.native[2] = InsertSql(TName, <<KName>>)

\* The instance the priority order gives the inputs <<db_type, db_instance,
\* url>> of a relational construction: the explicit name, else the name
\* inferred from the connection string, else sqlite.
InstanceByPriority(config) ==
  IF ToLower(config[2]) # <<>> THEN normalize_instance_alias(ToLower(config[2]))
  ELSE IF infer_sql_instance_from_url(config[3]) # <<>>
    THEN infer_sql_instance_from_url(config[3])
  ELSE <<"s", "q", "l", "i", "t", "e">>

\* Whether the last call constructed the Facade of the relational family.
ConstructedSql ==
  /\ last.op = "construct"
  /\ last.result = "ok"
  /\ ToLower(last.config[1]) = <<"s", "q", "l">>

\* C19: a Facade constructed for the relational family has the instance the
\* priority order gives (explicit name, else the name inferred from the
\* scheme of the connection string, else sqlite) and the adapter of that
\* instance.
C19_InstanceResolvedInPriorityOrder ==
  ConstructedSql =>
    /\ last.instance = InstanceByPriority(last.config)
    /\ last.dialect = SqlAdapterClass(InstanceByPriority(last.config))

\* The Facade constructed with no instance name and a postgresql connection
\* string: the sqlite adapter holds the engine of that connection string.
C19_Witness ==
  /\ ConstructedSql
  /\ last.config = <<<<"s", "q", "l">>, <<>>, PostgresUrl>>
  /\ last.instance = <<"s", "q", "l", "i", "t", "e">>
  /\ last.dialect = "SQLiteAdapter"
  /\ engines[UrlKey(PostgresUrl)] # None

\* Whether the inputs <<db_type, db_instance, url>> of a construction name a
\* family and instance combination the Facade does not know.
UnknownToFacade(config) ==
  IF ToLower(config[1]) \in SUPPORTED_DB_TYPES
    THEN /\ ToLower(config[2]) # <<>>
         /\ normalize_instance_alias(ToLower(config[2])) \notin
              EnginesOf(ToLower(config[1]))
    ELSE ToLower(config[1]) \notin
           SQL_ENGINES \cup NOSQL_ENGINES \cup GRAPH_ENGINES \cup VECTOR_ENGINES
             \cup AI_ENGINES

\* Whether the inputs of a routing resolve to no relational instance.
UnknownToRouter(config) == Resolved(config[2], config[3]) \notin SQL_ENGINES

\* Whether the call recorded in c was given an unknown combination.
UnknownCombination(c) ==
  \/ c.op = "construct" /\ UnknownToFacade(c.config)
  \/ c.op = "route" /\ UnknownToRouter(c.config)

\* C20: a construction or a routing with an unknown family and instance
\* combination ends in an error, yields no adapter and builds no engine.
C20_UnknownCombinationFailsFast ==
  [][UnknownCombination(last') =>
       /\ last'.result # "ok"
       /\ last'.dialect = ""
       /\ UNCHANGED <<engines, built>>]_vars

\* The Facade of the graph family constructed with an instance name no
\* family knows: the adapter is there.
C20_Witness ==
  /\ last.op = "construct"
  /\ last.config = <<<<"g", "r", "a", "p", "h">>, <<"b", "o", "g", "u", "s">>, <<>>>>
  /\ last.result = "ok"
  /\ last.dialect = "GraphAdapter"

\* Whether every field of the mapping is a field of the row with that value.
EqualsMapping(row, items) ==
  \A i \in 1..Len(items) : RowHas(row, items[i][1], items[i][2])

\* The stored rows of an entity whose fields equal the mapping.
StoredEqual(rows, entity, items) ==
  {row \in rows : row.e = entity /\ EqualsMapping(row, items)}

\* Whether call c, a find or a delete with a where mapping, returned normally
\* to a context that has no transaction.
MappingCallOutside(c, op) ==
  /\ c.op = op
  /\ c.result = "ok"
  /\ c.where.kind = "map"
  /\ local[c.adapter][c.thread].connection = None

\* C21: outside transactions a find with a where mapping returns exactly the
\* stored rows whose fields equal the mapping; a delete with a where mapping
\* affects as many rows as equal the mapping and leaves none of them stored.
C21_FindAndDeleteByMapping ==
  [][/\ MappingCallOutside(last', "find") =>
          last'.rows = StoredEqual(committed, last'.entity, last'.where.items)
     /\ MappingCallOutside(last', "delete") =>
          /\ Cardinality(last'.rows) =
               Cardinality(StoredEqual(committed, last'.entity, last'.where.items))
          /\ StoredEqual(committed', last'.entity, last'.where.items) = {}]_vars

\* A row whose field is None is stored and a find for that field being None
\* returned no rows.
C21_Witness ==
  /\ MappingCallOutside(last, "find")
  /\ last.where = MapWhere(KNone)
  /\ last.rows = {}
  /\ StoredEqual(committed, TName, KNone) # {}

\* Whether a name holds whitespace, starts with a digit or holds a symbol
\* other than the underscore.
Malformed(name) ==
  \/ \E i \in 1..Len(name) : name[i] \in Space
  \/ (name # <<>> /\ name[1] \in Digits)
  \/ \E i \in 1..Len(name) : name[i] \notin WordChars \cup Space

\* C22: each identifier validator returns a name matching
\* ^[A-Za-z_][A-Za-z0-9_]*$ unchanged and fails with QueryError on a name that
\* holds whitespace, starts with a digit or holds a symbol other than "_".
C22_IdentifierValidation ==
  last.op = "validate" =>
    /\ IsIdentifier(last.entity) => (last.result = "ok" /\ last.ret = last.entity)
    /\ Malformed(last.entity) => last.result = "QueryError"

\* validate_entity given a name with a leading blank returned the name
\* without it.
C22_Witness ==
  /\ last.op = "validate"
  /\ last.via = "validate_entity"
  /\ last.entity = <<" ", "a">>
  /\ last.result = "ok"
  /\ last.ret = <<"a">>

\* A literal of the form digits.digits.
IsDecimal(val) ==
  /\ IndexOf(val, ".") > 0
  /\ IsDigits(SubSeq(val, 1, IndexOf(val, ".") - 1))
  /\ IsDigits(From(val, IndexOf(val, ".") + 1))

\* A literal without one layer of surrounding single or double quotes.
Unquoted(val) ==
  IF Len(val) >= 2 /\ val[1] = val[Len(val)] /\ val[1] \in {"'", "\""}
    THEN SubSeq(val, 2, Len(val) - 1)
    ELSE val

\* The value the coercion rules give a literal.
CoercedByRule(val) ==
  IF ToLower(val) = <<"t", "r", "u", "e">> THEN Typed("bool", TRUE)
  ELSE IF ToLower(val) = <<"f", "a", "l", "s", "e">> THEN Typed("bool", FALSE)
  ELSE IF IsDigits(val) THEN Typed("int", StrInt(val))
  ELSE IF IsDecimal(val) THEN Typed("float", val)
  ELSE Typed("str", Unquoted(val))

\* C23: the parser, the document generator and the graph generator coerce a
\* literal to the same typed value, the one the rules give: a boolean for
\* true/false in any case, an integer for digits, a float for digits.digits,
\* else the string without one layer of surrounding quotes.
C23_UniformCoercion ==
  last.op = "coerce" =>
    \A i \in 1..3 : last.ret[i] = CoercedByRule(last.uql)

\* The literal 1.1 is a string for the parser and the graph generator and a
\* float for the document generator.
C23_Witness ==
  /\ last.op = "coerce"
  /\ last.uql = <<"1", ".", "1">>
  /\ last.ret[1].t = "str"
  /\ last.ret[2].t = "float"
  /\ last.ret[3].t = "str"

\* The value of a clause as a Cypher literal: a boolean in lower case, a
\* number as it stands, a string in double quotes.
CypherLiteral(value) ==
  IF ToLower(value) \in {<<"t", "r", "u", "e">>, <<"f", "a", "l", "s", "e">>} THEN ToLower(value)
  ELSE IF IsDigits(value) THEN value
  ELSE <<"\"">> \o Unquoted(value) \o <<"\"">>

\* The fragment of a clause: n.<field> <op> <value>, or the pattern of a
\* relationship for HAS.
Fragment(c) ==
  IF c.op = "HAS" THEN <<"(", "n", ")", "-", "[", ":">> \o ToUpper(c.field) \o <<"]", "-", ">", "(", ")">>
  ELSE <<"n", ".">> \o c.field \o <<" ", c.op, " ">> \o CypherLiteral(c.value)

\* MATCH (n:<entity>) WHERE f1 AND ... AND fn RETURN n;
MatchText(entity, clauses) ==
  <<"M", "A", "T", "C", "H", " ", "(", "n", ":">> \o entity \o <<")", " ", "W", "H", "E", "R", "E", " ">>
    \o Join([i \in 1..Len(clauses) |-> Fragment(clauses[i])], <<" ", "A", "N", "D", " ">>)
    \o <<" ", "R", "E", "T", "U", "R", "N", " ", "n", ";">>

DocValue(typed) ==
  CASE typed.t = "bool" -> IF typed.v THEN <<"True">> ELSE <<"False">>
    [] typed.t = "int" -> IntStr(typed.v)
    [] typed.t = "float" -> <<"float(">> \o typed.v \o <<")">>
    [] OTHER -> Quoted(typed.v)

\* The insert operation on the collection of the entity whose document maps
\* every field to the coerced value of its literal.
InsertOperation(entity, fields) ==
  Dict(<<Entry(<<"insert">>, Quoted(ToLower(entity))),
         Entry(<<"document">>,
               Dict([i \in 1..Len(fields) |->
                       Entry(fields[i][1], DocValue(CoercedByRule(fields[i][2])))]))>>)

\* C25: CREATE <E> {f1: v1, ..., fn: vn} compiles for the document backend
\* to an insert into the collection named by the lower-cased entity whose
\* document has exactly the fields f1..fn with the coerced values.
C25_DocumentCreateCompiled ==
  \A fields \in FieldLists :
     (last.op = "uexecute" /\ last.family = "nosql"
        /\ last.uql = CreateStatement(<<"U", "s", "e", "r">>, fields))
       => (last.result = "ok" /\ last.q = InsertOperation(<<"U", "s", "e", "r">>, fields))

\* A statement whose string value holds a comma ended in ValueError and
\* compiled to nothing.
C25_Witness ==
  /\ last.op = "uexecute"
  /\ last.family = "nosql"
  /\ last.uql = CreateStatement(<<"U", "s", "e", "r">>, << <<<<"t", "a", "g">>, <<"'", "a", ",", "b", "'">>>>, <<<<"a", "g", "e">>, <<"2", "3">>>> >>)
  /\ last.result = "ValueError"
  /\ last.q = <<>>

\* C26: every ConnectionManager a construction has returned to a thread is
\* the one shared instance and had all its attributes when it was returned.
C26_ManagerInitialised ==
  \A t \in Threads :
     cm.got[t].id # None =>
       /\ cm.got[t].id = cm.instance
       /\ cm.objects = 1
       /\ cm.got[t].attrs = NumAttrs

\* A thread was returned the instance while the constructing thread had not
\* set its attributes yet.
C26_Witness ==
  \E t, u \in Threads :
     /\ cm.got[t].id = cm.instance
     /\ cm.got[t].id # None
     /\ cm.got[t].attrs < NumAttrs
     /\ cm.pc[u] = "init"

\* Whether the last call was the end of a scoped block whose body returned
\* and whose closing commit raised.
CommitFailedAtExit ==
  /\ last.op = "transaction"
  /\ last.outcome = "ok"
  /\ last.result # "none"

\* C27: when the commit at the end of a scoped block fails, the helper makes
\* no rollback call in the context the commit has already left idle, and the
\* failure that leaves the block is the commit failure.
C27_CommitFailureSeen ==
  CommitFailedAtExit
  => /\ Count(last.events, "rollback") = 0
     /\ last.result = "TransactionError_commit"

\* The closing commit raised, the helper called rollback on the cleared
\* handle, and the failure that left the block is that of the rollback.
C27_Witness ==
  /\ CommitFailedAtExit
  /\ last.events = <<"begin", "commit", "rollback">>
  /\ last.result = "TransactionError_none"
  /\ last.closed = <<1>>
  /\ local[last.adapter][last.thread] = NoHandle

\* Whether the step is a begin() of context (a, t) that raised what the
\* driver raised, in engine.connect() or in conn.begin().
BeginFailed(a, t) ==
  /\ last'.op = "begin"
  /\ last'.adapter = a
  /\ last'.thread = t
  /\ last'.result = "DriverError"

\* The connections checked out from the pool.
CheckedOut(cs) == (1..PoolCapacity) \ Free(cs)

\* C28: a begin() that fails while checking out the connection or while
\* opening the transaction leaves the context without a transaction and
\* leaves no connection checked out that was not checked out before.
C28_FailedBeginReleases ==
  [][\A a \in Adapters, t \in Threads :
       BeginFailed(a, t)
       => /\ local'[a][t] = NoHandle
          /\ CheckedOut(conns') = CheckedOut(conns)]_vars

\* conn.begin() raised: the context holds no transaction and the connection
\* it checked out is still out of the pool, with no transaction on it.
C28_Witness ==
  /\ last.op = "begin"
  /\ last.result = "DriverError"
  /\ local[last.adapter][last.thread] = NoHandle
  /\ \E c \in CheckedOut(conns) :
        /\ conns[c].owner = <<last.adapter, last.thread>>
        /\ conns[c].tx = "none"

\* Whether the step is a create, find or delete of context (a, t) on a
\* relational adapter.
StatementCall(a, t) ==
  /\ last'.op \in {"create", "find", "delete"}
  /\ last'.family = "sql"
  /\ last'.adapter = a
  /\ last'.thread = t

\* C29: every statement of a call made by a context that holds a transaction
\* (the CREATE TABLE of create included) runs on that transaction's
\* connection and nothing is committed by it; every statement of a call made
\* by a context that holds none runs on a connection of its own, leaves every
\* transactional connection as it was, and what it wrote is committed when
\* the call returns, or nothing is when it failed.
C29_StatementsOnOwnConnection ==
  [][\A a \in Adapters, t \in Threads :
       StatementCall(a, t)
       => /\ Len(last'.on) = Len(last'.native)
          /\ local' = local
          /\ local[a][t].connection # None
               => /\ \A i \in 1..Len(last'.on) : last'.on[i] = local[a][t].connection
                  /\ committed' = committed
                  /\ \A c \in 1..PoolCapacity :
                        c # local[a][t].connection => conns'[c] = conns[c]
          /\ local[a][t].connection = None
               => /\ \A i \in 1..Len(last'.on) : last'.on[i] = None
                  /\ conns' = conns
                  /\ last'.result # "ok" => committed' = committed
                  /\ (last'.result = "ok" /\ last'.op = "create")
                       => \E row \in committed' :
                             /\ row.id = nrows'
                             /\ committed' = committed \cup {row}
                  /\ (last'.result = "ok" /\ last'.op = "delete")
                       => committed' = committed \ last'.rows]_vars

\* A create inside a transaction ran its CREATE TABLE and its INSERT on the
\* transaction's connection, where the row is pending, while the other thread
\* holds no transaction.
C29_Witness ==
  /\ last.op = "create"
  /\ last.result = "ok"
  /\ Len(last.native) = 2
  /\ local[last.adapter][last.thread].connection # None
  /\ last.on = <<local[last.adapter][last.thread].connection,
                 local[last.adapter][last.thread].connection>>
  /\ \E row \in conns[local[last.adapter][last.thread].connection].ins : row.id = nrows
  /\ \E u \in Threads : local[last.adapter][u].connection = None

\* A payload value as it stands in a document: True / False, a signed
\* decimal, a float, a quoted string.
PayloadDocValue(val) ==
  CASE val.t = "bool" -> IF val.v THEN <<"True">> ELSE <<"False">>
    [] val.t = "int" -> IF val.v < 0 THEN <<"-">> \o IntStr(0 - val.v) ELSE IntStr(val.v)
    [] val.t = "float" -> <<"float(">> \o val.v \o <<")">>
    [] OTHER -> Quoted(val.v)

\* A payload value as it stands in a Cypher property map: true / false, a
\* number, a double-quoted string.
PayloadCypherValue(val) ==
  CASE val.t = "bool" -> IF val.v THEN <<"t", "r", "u", "e">> ELSE <<"f", "a", "l", "s", "e">>
    [] val.t = "int" -> IF val.v < 0 THEN <<"-">> \o IntStr(0 - val.v) ELSE IntStr(val.v)
    [] val.t = "float" -> val.v
    [] OTHER -> <<"\"">> \o val.v \o <<"\"">>

\* The insert operation whose document is the payload.
PayloadInsert(entity, data) ==
  Dict(<<Entry(<<"insert">>, Quoted(ToLower(entity))),
         Entry(<<"document">>,
               Dict([i \in 1..Len(data) |->
                       Entry(data[i][1], PayloadDocValue(data[i][2]))]))>>)

\* The Cypher CREATE whose property map is the payload.
PayloadNode(entity, data) ==
  <<"C", "R", "E", "A", "T", "E", " ", "(", "n", ":">> \o entity \o <<" ", "{">>
    \o Join([i \in 1..Len(data) |->
               data[i][1] \o <<":", " ">> \o PayloadCypherValue(data[i][2])], <<",", " ">>)
    \o <<"}", ")", " ", "R", "E", "T", "U", "R", "N", " ", "n", ";">>

\* C30: create(entity, data) on the Facade of a non-relational family hands
\* the adapter a document, or a property map, that has the fields of data
\* with their values and the types of their values.
C30_CreateRoundTrips ==
  (last.op = "create" /\ last.via = "facade" /\ last.family \in {"nosql", "graph"})
  => /\ last.result = "ok"
     /\ last.family = "nosql" => last.q = PayloadInsert(last.entity, last.data)
     /\ last.family = "graph" => last.q = PayloadNode(last.entity, last.data)

\* The integer -5 reached the document store as the string '-5'.
C30_Witness ==
  /\ last.op = "create"
  /\ last.via = "facade"
  /\ last.family = "nosql"
  /\ last.data = << <<KName, IntVal(0 - 5)>> >>
  /\ last.result = "ok"
  /\ last.q = PayloadInsert(last.entity, << <<KName, StrVal(<<"-", "5">>)>> >>)

====
